---- MODULE Spec2Model ----
(***************************************************************************)
(* Model of the station/selection layer of metro-jsapi:                    *)
(*   transportMap.Station            (src/src/transportMap/Scheme.js)      *)
(*   transportMap.StationCollection  (src/unnamed/part_000)                *)
(*   transportMap.Scheme metadata    (src/src/transportMap/Scheme.js)      *)
(* The scheme document is a set of glyph nodes, each a child of one of the *)
(* four layer groups the code appends to.  A station object is identified  *)
(* by the metadata key it was built from (its identity as a JS object);    *)
(* its public fields are code, title and selected.                         *)
(***************************************************************************)
EXTENDS Integers, Sequences, FiniteSets, TLC

\* ------------------------------------------------------------------ bounds
NumStations == 2      \* entries of metadata.stations, keyed 1..NumStations
MaxEvents == 3        \* 'selectionchange' events recorded before calls stop
MaxCodes == 2         \* length of the array passed to select/deselect
MaxTitleLen == 2      \* characters of a station title (search specification)

StationKeys == 1..NumStations
\* Codes a caller may pass: every key, and one number that is no key.
Codes == 1..(NumStations + 1)
\* Label ids of metadata.labels; they share the number space of the keys.
LabelIds == 1..(NumStations + 1)
\* Ids N of the 'station-N' glyph nodes.
GlyphIds == StationKeys

\* JavaScript's undefined and null, as values of the sort they stand in for:
\* undefined where a station (a key, never 0) is expected, null where a glyph
\* node is.
Undefined == 0
Null == <<"null", 0>>

NormalLabels == "scheme-layer-labels"
NormalStations == "scheme-layer-stations"
HighlightLabels == "highlight-layer-labels"
HighlightStations == "highlight-layer-stations"
LayerIds == {NormalLabels, NormalStations, HighlightLabels, HighlightStations}

LabelNode(id) == <<"label", id>>
StationNode(id) == <<"station", id>>

\* Characters of titles and requests: two letters differing in case only,
\* the space the code splits on, and another whitespace character.
Space == " "
Tab == "\t"
Whitespace == {Space, Tab}
Alphabet == {"a", "A", Space, Tab}

RECURSIVE SeqsUpTo(_, _)
SeqsUpTo(S, n) ==
    IF n = 0 THEN {<<>>}
    ELSE LET shorter == SeqsUpTo(S, n - 1)
         IN  shorter \cup {Append(s, x) : s \in {t \in shorter : Len(t) = n - 1}, x \in S}

VARIABLES
    metadata,          \* Scheme._metaData: [stations, labels]
    stationsMap,       \* StationCollection._stationsMap: key -> Station object
    items,             \* the collection's children, in insertion order
    parent,            \* key -> parent of the station's event manager
    layers,            \* scheme DOM: layer id -> its children, in order
    rect,              \* label id -> style of the label's first <rect>
    stationEvents,     \* key -> events delivered to that station's manager
    collectionEvents,  \* events delivered to the collection's manager
    call,              \* the last public call and its outcome
    view,              \* SchemeView, the SchemeLayer over it and the host pane
    load,              \* Scheme._load and the TransportMap being created from it
    annot              \* Station.annotate: futures, annotation lists, the map

vars == <<metadata, stationsMap, items, parent, layers, rect,
          stationEvents, collectionEvents, call, view, load, annot>>

\* The variables of the parts a specification leaves out.
others == <<view, load, annot>>
NotModelled == "not modelled"

\* The mutable program state the operations work on, as one record.
World ==
    [st |-> stationsMap, items |-> items, parent |-> parent, layers |-> layers,
     rect |-> rect, sev |-> stationEvents, cev |-> collectionEvents,
     meta |-> metadata]

Ok(w) == [w |-> w, threw |-> FALSE]
Throw(w) == [w |-> w, threw |-> TRUE]

\* ------------------------------------------------------- scheme document
\* Node.removeChild as a side effect of appendChild: a node has one parent.
Without(children, node) == SelectSeq(children, LAMBDA n : n # node)

\* parentNode.appendChild(element): the element leaves its present parent
\* and becomes the last child of parentNode.
AppendChild(ls, id, node) ==
    [l \in DOMAIN ls |->
        IF l = id THEN Append(Without(ls[l], node), node) ELSE Without(ls[l], node)]

ChildrenOf(ls, id) == {ls[id][i] : i \in 1..Len(ls[id])}

\* getElementById for a glyph node: the node, or null when no layer holds it.
GetElementById(w, node) ==
    IF \E l \in DOMAIN w.layers : node \in ChildrenOf(w.layers, l) THEN node ELSE Null

\* The layer group a glyph node is a child of.
ParentOf(ls, node) ==
    IF \E l \in DOMAIN ls : node \in ChildrenOf(ls, l)
    THEN CHOOSE l \in DOMAIN ls : node \in ChildrenOf(ls, l)
    ELSE "none"

\* Scheme.getLabel(code): this._metaData.labels[code], for a code the labels
\* hold (HasLabel); otherwise it returns undefined.
HasLabel(w, code) == code \in DOMAIN w.meta.labels

GetLabel(w, code) == w.meta.labels[code]

\* -------------------------------------------------------------- Station
\* new Station(metadata, schemeView): the fields the constructor sets.
Station(m) == [code |-> m.labelId, title |-> m.name, selected |-> FALSE]

SelectionChange(type, target) ==
    [name |-> "selectionchange", type |-> type, target |-> target]

\* station.events.fire('selectionchange', {type, target: this}): the event is
\* delivered to the station's own manager and then bubbles to the manager
\* that setParent made its parent.
Fire(w, k, type) ==
    LET e == SelectionChange(type, k)
        own == [w EXCEPT !.sev[k] = Append(@, e)]
    IN  IF w.parent[k] = "collection"
        THEN [own EXCEPT !.cev = Append(@, e)]
        ELSE own

\* Station._getStationNodes: the 'station-N' nodes of the label's stationIds
\* (null for an id the document lacks).
GetStationNodes(w, k) ==
    LET ids == GetLabel(w, w.st[k].code).stationIds
    IN  [i \in 1..Len(ids) |-> GetElementById(w, StationNode(ids[i]))]

\* Station._appendTo(id, elements): appends one element after the other and
\* stops at the first that raises (parent group or element missing).
RECURSIVE AppendTo(_, _, _)
AppendTo(w, id, elements) ==
    IF elements = <<>> THEN Ok(w)
    ELSE IF id \notin DOMAIN w.layers \/ Head(elements) = Null THEN Throw(w)
    ELSE AppendTo([w EXCEPT !.layers = AppendChild(@, id, Head(elements))],
                  id, Tail(elements))

HighlightStyle == [stroke |-> "#bbb", opacity |-> "1"]
PlainStyle == [stroke |-> "", opacity |-> ""]

\* Mutant of Station.select: the test of this.selected is missing.
StationSelectUnguarded(w, k) ==
    LET code == w.st[k].code
        labelNode == GetElementById(w, LabelNode(code))
    IN  IF labelNode = Null THEN Throw(w)
        ELSE
        LET w1 == [w EXCEPT !.st[k].selected = TRUE]
        IN  IF code \notin DOMAIN w.rect THEN Throw(w1)
            ELSE
            LET w2 == [w1 EXCEPT !.rect[code] = HighlightStyle]
            IN  IF ~HasLabel(w2, code) THEN Throw(w2)
                ELSE
                LET r3 == AppendTo(w2, HighlightStations, GetStationNodes(w2, k))
                IN  IF r3.threw THEN r3
                    ELSE
                    LET r4 == AppendTo(r3.w, HighlightLabels, <<labelNode>>)
                    IN  IF r4.threw THEN r4
                        ELSE Ok(Fire(r4.w, k, "select"))

\* Station.select.  Each failure leaves what the statements before it did:
\* a missing label node raises before anything is written, a missing rect
\* after selected is set, a missing glyph or layer group in mid-move.
StationSelect(w, k) ==
    LET code == w.st[k].code
        labelNode == GetElementById(w, LabelNode(code))
    IN  IF w.st[k].selected THEN Ok(w)
        ELSE IF labelNode = Null THEN Throw(w)
        ELSE
        LET w1 == [w EXCEPT !.st[k].selected = TRUE]
        IN  IF code \notin DOMAIN w.rect THEN Throw(w1)
            ELSE
            LET w2 == [w1 EXCEPT !.rect[code] = HighlightStyle]
            IN  IF ~HasLabel(w2, code) THEN Throw(w2)
                ELSE
                LET r3 == AppendTo(w2, HighlightStations, GetStationNodes(w2, k))
                IN  IF r3.threw THEN r3
                    ELSE
                    LET r4 == AppendTo(r3.w, HighlightLabels, <<labelNode>>)
                    IN  IF r4.threw THEN r4
                        ELSE Ok(Fire(r4.w, k, "select"))

\* Mutant of Station.deselect: the label node is appended to the highlight
\* layer, as in select.
StationDeselectKeepsLabel(w, k) ==
    LET code == w.st[k].code
        labelNode == GetElementById(w, LabelNode(code))
    IN  IF ~w.st[k].selected THEN Ok(w)
        ELSE IF labelNode = Null THEN Throw(w)
        ELSE
        LET w1 == [w EXCEPT !.st[k].selected = FALSE]
        IN  IF code \notin DOMAIN w.rect THEN Throw(w1)
            ELSE
            LET w2 == [w1 EXCEPT !.rect[code] = PlainStyle]
            IN  IF ~HasLabel(w2, code) THEN Throw(w2)
                ELSE
                LET r3 == AppendTo(w2, NormalStations, GetStationNodes(w2, k))
                IN  IF r3.threw THEN r3
                    ELSE
                    LET r4 == AppendTo(r3.w, HighlightLabels, <<labelNode>>)
                    IN  IF r4.threw THEN r4
                        ELSE Ok(Fire(r4.w, k, "deselect"))

\* Station.deselect, the mirror of select.
StationDeselect(w, k) ==
    LET code == w.st[k].code
        labelNode == GetElementById(w, LabelNode(code))
    IN  IF ~w.st[k].selected THEN Ok(w)
        ELSE IF labelNode = Null THEN Throw(w)
        ELSE
        LET w1 == [w EXCEPT !.st[k].selected = FALSE]
        IN  IF code \notin DOMAIN w.rect THEN Throw(w1)
            ELSE
            LET w2 == [w1 EXCEPT !.rect[code] = PlainStyle]
            IN  IF ~HasLabel(w2, code) THEN Throw(w2)
                ELSE
                LET r3 == AppendTo(w2, NormalStations, GetStationNodes(w2, k))
                IN  IF r3.threw THEN r3
                    ELSE
                    LET r4 == AppendTo(r3.w, NormalLabels, <<labelNode>>)
                    IN  IF r4.threw THEN r4
                        ELSE Ok(Fire(r4.w, k, "deselect"))

\* Mutant of the 'click' listener: it selects, whatever the state.
StationClickSelects(w, k) == StationSelect(w, k)

\* The 'click' listener the constructor adds: toggle select.
StationClick(w, k) ==
    IF w.st[k].selected THEN StationDeselect(w, k) ELSE StationSelect(w, k)


\* ---------------------------------------------------- StationCollection
\* The constructor's loop: for (code in metadata) visits the numeric keys in
\* ascending order; each station is stored under its key, added to the
\* collection and given the collection's event manager as parent.
RECURSIVE Ascending(_)
Ascending(S) ==
    IF S = {} THEN <<>>
    ELSE LET m == CHOOSE x \in S : \A y \in S : x <= y
         IN  <<m>> \o Ascending(S \ {m})

StationCollectionMap(meta) ==
    [code \in DOMAIN meta.stations |-> Station(meta.stations[code])]

StationCollectionItems(meta) == Ascending(DOMAIN meta.stations)

\* Mutant of the constructor: setParent is called once, after the loop, on
\* the station the loop variable is left holding.
StationCollectionParentsLastOnly(meta) ==
    [code \in DOMAIN meta.stations |->
        IF \A other \in DOMAIN meta.stations : other <= code THEN "collection" ELSE "none"]

StationCollectionParents(meta) == [code \in DOMAIN meta.stations |-> "collection"]

\* Mutant of getByCode: the station is looked up by its code field.
GetByCodeField(w, code) ==
    IF \E k \in DOMAIN w.st : w.st[k].code = code
    THEN CHOOSE k \in DOMAIN w.st : w.st[k].code = code
    ELSE Undefined

\* StationCollection.getByCode: this._stationsMap[code]
GetByCode(w, code) == IF code \in DOMAIN w.st THEN code ELSE Undefined

\* The argument of select/deselect: a single code or an array of codes.
OneCode(code) == [array |-> FALSE, value |-> code]
CodeArray(codes) == [array |-> TRUE, value |-> codes]

\* [].concat(codes): a single code becomes a one-element array.
Concat(codes) == IF codes.array THEN codes.value ELSE <<codes.value>>

\* Mutant of select: a code without a station is skipped.
RECURSIVE SelectEachKnown(_, _)
SelectEachKnown(w, codes) ==
    IF codes = <<>> THEN Ok(w)
    ELSE LET station == GetByCode(w, Head(codes))
         IN  IF station = Undefined THEN SelectEachKnown(w, Tail(codes))
             ELSE LET r == StationSelect(w, station)
                  IN  IF r.threw THEN r ELSE SelectEachKnown(r.w, Tail(codes))

\* StationCollection.select: forEach over the codes, in order; calling
\* select() on undefined raises a TypeError and ends the loop.
RECURSIVE SelectEach(_, _)
SelectEach(w, codes) ==
    IF codes = <<>> THEN Ok(w)
    ELSE LET station == GetByCode(w, Head(codes))
         IN  IF station = Undefined THEN Throw(w)
             ELSE LET r == StationSelect(w, station)
                  IN  IF r.threw THEN r ELSE SelectEach(r.w, Tail(codes))

\* Mutant of select: the codes are looked up before any station is
\* selected, so that an unknown code leaves every station as it was.
CollectionSelectAtomic(w, codes) ==
    IF \E i \in DOMAIN Concat(codes) : GetByCode(w, Concat(codes)[i]) = Undefined
    THEN Throw(w)
    ELSE SelectEach(w, Concat(codes))

CollectionSelect(w, codes) == SelectEach(w, Concat(codes))

\* StationCollection.deselect
RECURSIVE DeselectEach(_, _)
DeselectEach(w, codes) ==
    IF codes = <<>> THEN Ok(w)
    ELSE LET station == GetByCode(w, Head(codes))
         IN  IF station = Undefined THEN Throw(w)
             ELSE LET r == StationDeselect(w, station)
                  IN  IF r.threw THEN r ELSE DeselectEach(r.w, Tail(codes))

\* Mutant of deselect: every station of the collection is deselected.
CollectionDeselectAll(w, codes) == DeselectEach(w, w.items)

CollectionDeselect(w, codes) == DeselectEach(w, Concat(codes))

\* Mutant of getSelection: codes.unshift instead of codes.push.
RECURSIVE SelectionFromUnshift(_, _)
SelectionFromUnshift(w, rest) ==
    IF rest = <<>> THEN <<>>
    ELSE IF w.st[Head(rest)].selected
         THEN SelectionFromUnshift(w, Tail(rest)) \o <<w.st[Head(rest)].code>>
         ELSE SelectionFromUnshift(w, Tail(rest))

\* StationCollection.getSelection: this.each pushes station.code of every
\* selected child, in the children's order.
RECURSIVE SelectionFrom(_, _)
SelectionFrom(w, rest) ==
    IF rest = <<>> THEN <<>>
    ELSE IF w.st[Head(rest)].selected
         THEN <<w.st[Head(rest)].code>> \o SelectionFrom(w, Tail(rest))
         ELSE SelectionFrom(w, Tail(rest))

GetSelection(w) == SelectionFrom(w, w.items)

\* String.prototype.split(' '): the pieces between single spaces, empty
\* pieces included; a string without a space is one piece.
RECURSIVE Split(_)
Split(str) ==
    IF \A i \in 1..Len(str) : str[i] # Space THEN <<str>>
    ELSE LET i == CHOOSE j \in 1..Len(str) :
                      str[j] = Space /\ \A h \in 1..(j - 1) : str[h] # Space
         IN  <<SubSeq(str, 1, i - 1)>> \o Split(SubSeq(str, i + 1, Len(str)))

\* token.substr(0, request.length)
Substr0(token, n) == SubSeq(token, 1, IF n < Len(token) THEN n ELSE Len(token))

\* The filter callback of search.
Matches(title, request) ==
    \E i \in 1..Len(Split(title)) : Substr0(Split(title)[i], Len(request)) = request

\* StationCollection.search: the promise is fulfilled at once with the
\* children that pass the filter, in the children's order.
Search(w, request) ==
    SelectSeq(w.items, LAMBDA k : Matches(w.st[k].title, request))

\* ------------------------------------------------------------ the inputs
\* metadata.stations, three shapes of the key -> labelId relation: every
\* station labelled by its own key, every station labelled by the next
\* number (the last label is no station key), all stations under one label.
LabelIdShapes ==
    { [k \in StationKeys |-> k],
      [k \in StationKeys |-> k + 1],
      [k \in StationKeys |-> 1] }

\* metadata.labels: each label lists the stations that name it, or every
\* label lists every station glyph (labels sharing glyphs).
LabelsByStation(labelId) ==
    [l \in LabelIds |->
        [stationIds |-> Ascending({k \in StationKeys : labelId[k] = l})]]

LabelsSharingGlyphs == [l \in LabelIds |-> [stationIds |-> Ascending(GlyphIds)]]

SampleTitles ==
    [k \in StationKeys |-> IF k % 2 = 1 THEN <<"a">> ELSE <<"A", Space, "a">>]

Metadata(labelId, labels, titles) ==
    [stations |-> [k \in StationKeys |-> [labelId |-> labelId[k], name |-> titles[k]]],
     labels |-> labels]

\* The parsed document: every label and station glyph in its normal layer
\* group, the highlight groups empty, every label rect unstyled.
SchemeLayers ==
    (NormalLabels :> [i \in 1..Cardinality(LabelIds) |-> LabelNode(i)]) @@
    (NormalStations :> [i \in 1..Cardinality(GlyphIds) |-> StationNode(i)]) @@
    (HighlightLabels :> <<>>) @@
    (HighlightStations :> <<>>)

NoCall == [op |-> "new", arg |-> <<>>, result |-> <<>>, threw |-> FALSE]

\* State after TransportMap._onSchemeLoad built the StationCollection from
\* the loaded scheme: its metadata, the children of its layer groups and
\* the rects of its labels.
LoadedDocument(meta, groups, rects) ==
    /\ metadata = meta
    /\ stationsMap = StationCollectionMap(meta)
    /\ items = StationCollectionItems(meta)
    /\ parent = StationCollectionParents(meta)
    /\ layers = groups
    /\ rect = rects
    /\ stationEvents = [k \in DOMAIN meta.stations |-> <<>>]
    /\ collectionEvents = <<>>
    /\ call = NoCall

\* The same for the document that has every node its metadata names.
Loaded(meta) == LoadedDocument(meta, SchemeLayers, [l \in LabelIds |-> PlainStyle])

Init ==
    /\ \E labelId \in LabelIdShapes :
          \E labels \in {LabelsByStation(labelId), LabelsSharingGlyphs} :
              Loaded(Metadata(labelId, labels, SampleTitles))
    /\ view = NotModelled
    /\ load = NotModelled
    /\ annot = NotModelled

\* ----------------------------------------------------------- the actions
\* Titles and requests: every string over the alphabet up to the bound.
Strings == SeqsUpTo(Alphabet, MaxTitleLen)

RECURSIVE SumLen(_, _)
SumLen(f, S) ==
    IF S = {} THEN 0
    ELSE LET x == CHOOSE y \in S : TRUE IN Len(f[x]) + SumLen(f, S \ {x})

\* Events fired so far, by all stations.
Fired == SumLen(stationEvents, DOMAIN stationEvents)

\* The state a call leaves, and the record of the call.
Becomes(r, op, arg, result) ==
    /\ stationsMap' = r.w.st
    /\ items' = r.w.items
    /\ parent' = r.w.parent
    /\ layers' = r.w.layers
    /\ rect' = r.w.rect
    /\ stationEvents' = r.w.sev
    /\ collectionEvents' = r.w.cev
    /\ metadata' = r.w.meta
    /\ call' = [op |-> op, arg |-> arg, result |-> result, threw |-> r.threw]
    /\ UNCHANGED others

\* station.select() on a station of the collection
Select(k) ==
    /\ Fired < MaxEvents
    /\ Becomes(StationSelect(World, k), "Station.select", <<k>>, <<>>)

\* station.deselect()
Deselect(k) ==
    /\ Fired < MaxEvents
    /\ Becomes(StationDeselect(World, k), "Station.deselect", <<k>>, <<>>)

\* a 'click' event delivered to the station's event manager
Click(k) ==
    /\ Fired < MaxEvents
    /\ Becomes(StationClick(World, k), "click", <<k>>, <<>>)

\* The arguments of the batch calls: one code (Codes), or an array of codes.
CodeArrays == SeqsUpTo(Codes, MaxCodes)

\* stations.select(codes)
SelectCodes(codes) ==
    /\ Fired + Len(Concat(codes)) <= MaxEvents
    /\ Becomes(CollectionSelect(World, codes), "select", Concat(codes), <<>>)

\* stations.deselect(codes)
DeselectCodes(codes) ==
    /\ Fired + Len(Concat(codes)) <= MaxEvents
    /\ Becomes(CollectionDeselect(World, codes), "deselect", Concat(codes), <<>>)

\* stations.getSelection()
CallGetSelection ==
    /\ TRUE
    /\ Becomes(Ok(World), "getSelection", <<>>, GetSelection(World))

\* stations.getByCode(code)
CallGetByCode(code) ==
    /\ code \in Codes
    /\ Becomes(Ok(World), "getByCode", <<code>>, <<GetByCode(World, code)>>)

\* stations.search(request): the value the returned promise is fulfilled with
CallSearch(request) ==
    /\ request \in Strings
    /\ Becomes(Ok(World), "search", request, Search(World, request))

Next ==
    \/ \E k \in StationKeys : Select(k)
    \/ \E k \in StationKeys : Deselect(k)
    \/ \E k \in StationKeys : Click(k)
    \/ \E code \in Codes : SelectCodes(OneCode(code))
    \/ \E codes \in CodeArrays : SelectCodes(CodeArray(codes))
    \/ \E code \in Codes : DeselectCodes(OneCode(code))
    \/ \E codes \in CodeArrays : DeselectCodes(CodeArray(codes))
    \/ CallGetSelection
    \/ \E code \in Codes : CallGetByCode(code)

Spec == Init /\ [][Next]_vars

\* ------------------------------------------------- search, on its own
\* The first station takes every title; the others one of three.
OtherTitles == {<<"a">>, <<"A">>, <<Tab>>}

SearchTitles ==
    {t \in [StationKeys -> Strings] : \A k \in StationKeys : k > 1 => t[k] \in OtherTitles}

InitSearch ==
    /\ \E titles \in SearchTitles :
          Loaded(Metadata([k \in StationKeys |-> k],
                          LabelsByStation([k \in StationKeys |-> k]), titles))
    /\ view = NotModelled
    /\ load = NotModelled
    /\ annot = NotModelled

NextSearch == \E request \in Strings : CallSearch(request)

SpecSearch == InitSearch /\ [][NextSearch]_vars

\* The variables of the station collection, for the parts that leave it alone.
collection == <<metadata, stationsMap, items, parent, layers, rect,
                stationEvents, collectionEvents, call>>

\* A scheme with every station labelled by its own key, for the
\* specifications that are not about the metadata.
PlainMetadata ==
    Metadata([k \in StationKeys |-> k], LabelsByStation([k \in StationKeys |-> k]),
             SampleTitles)

\* ------------------------------------- documents that lack a node
\* What the document may lack of one station: its label glyph, its station
\* glyph, or the rect of its label.
Parts == {"label", "station", "rect"}

\* The layer groups of the document without the glyph `node`.
LayersWithout(node) == [l \in DOMAIN SchemeLayers |-> Without(SchemeLayers[l], node)]

\* The collection built from a document that lacks `part` of station k.
LoadedWithout(k, part) ==
    LoadedDocument(PlainMetadata,
                   CASE part = "label" -> LayersWithout(LabelNode(k))
                     [] part = "station" -> LayersWithout(StationNode(k))
                     [] OTHER -> SchemeLayers,
                   IF part = "rect" THEN [l \in LabelIds \ {k} |-> PlainStyle]
                   ELSE [l \in LabelIds |-> PlainStyle])

InitAbsent ==
    /\ \E k \in StationKeys, part \in Parts : LoadedWithout(k, part)
    /\ view = NotModelled
    /\ load = NotModelled
    /\ annot = NotModelled

SpecAbsent == InitAbsent /\ [][Next]_vars

\* ------------------------------------------------------------ arithmetic
\* JavaScript numbers, as exact fractions n/d with d > 0 in lowest terms.
\* The rounding of IEEE doubles in the last bits of a result is left out.
\* NaN is 0/0: an operation on NaN gives NaN, a comparison with it is false.
\* No number is divided by 0 here, so no other d = 0 comes up.
RECURSIVE Gcd(_, _)
Gcd(a, b) == IF b = 0 THEN a ELSE Gcd(b, a % b)

Abs(x) == IF x < 0 THEN -x ELSE x

NaN == [n |-> 0, d |-> 0]
IsNaN(x) == x.d = 0

Frac(n, d) ==
    IF d = 0 THEN NaN
    ELSE LET g == Gcd(Abs(n), Abs(d))
             sign == IF d < 0 THEN -1 ELSE 1
         IN  [n |-> sign * (n \div g), d |-> sign * (d \div g)]

Num(i) == [n |-> i, d |-> 1]
Plus(x, y) == Frac(x.n * y.d + y.n * x.d, x.d * y.d)
Minus(x, y) == Frac(x.n * y.d - y.n * x.d, x.d * y.d)
Times(x, y) == Frac(x.n * y.n, x.d * y.d)
Over(x, y) == Frac(x.n * y.d, x.d * y.n)
LessEq(x, y) == ~IsNaN(x) /\ ~IsNaN(y) /\ x.n * y.d <= y.n * x.d
\* Math.min
Min(x, y) == IF IsNaN(x) \/ IsNaN(y) THEN NaN ELSE IF LessEq(x, y) THEN x ELSE y
\* Math.floor
Floor(x) == IF IsNaN(x) THEN NaN ELSE Num(x.n \div x.d)
\* Math.pow(2, zoom), for the whole zooms of the model
RECURSIVE Pow2(_)
Pow2(zoom) == IF zoom = 0 THEN Num(1) ELSE Times(Num(2), Pow2(zoom - 1))

\* =============================================================== claims
\* What the claims read off a state.
Selected(k) == stationsMap[k].selected
Known == DOMAIN stationsMap
Last(log) == log[Len(log)]
TypeOf(flag) == IF flag THEN "select" ELSE "deselect"

\* The program state, without the record of the call.
program == <<metadata, stationsMap, items, parent, layers, rect,
             stationEvents, collectionEvents>>

\* The glyphs of station k: its label node and the station nodes its label
\* lists.
StationGlyphs(k) ==
    LET ids == metadata.labels[stationsMap[k].code].stationIds
    IN  {StationNode(ids[i]) : i \in 1..Len(ids)}

InNormalLayers(ls, k) ==
    /\ ParentOf(ls, LabelNode(stationsMap[k].code)) = NormalLabels
    /\ \A n \in StationGlyphs(k) : ParentOf(ls, n) = NormalStations

\* C1: select() on a Selected station and deselect() on an Unselected one
\* change nothing and fire nothing; in every step a station fires exactly one
\* 'selectionchange' event if its selected flag flipped and none otherwise,
\* the event's type names the new state, and it differs from the type of the
\* station's previous event.
C1_Step ==
    \A k \in Known :
        /\ Selected(k)' = Selected(k) => stationEvents'[k] = stationEvents[k]
        /\ Selected(k)' # Selected(k) =>
              /\ stationEvents'[k] =
                    Append(stationEvents[k], SelectionChange(TypeOf(Selected(k)'), k))
              /\ stationEvents[k] # <<>> =>
                    Last(stationEvents[k]).type # TypeOf(Selected(k)')
        /\ (call'.op = "Station.select" /\ call'.arg = <<k>> /\ Selected(k)) =>
              UNCHANGED program /\ ~call'.threw
        /\ (call'.op = "Station.deselect" /\ call'.arg = <<k>> /\ ~Selected(k)) =>
              UNCHANGED program /\ ~call'.threw

C1_NoDuplicateEvents == [][C1_Step]_vars

\* C1 witness: select() was just called on a station that was Selected
\* already (the last event fired is another station's), and nothing fired.
C1_Witness ==
    \E k \in Known :
        /\ call.op = "Station.select" /\ call.arg = <<k>>
        /\ Selected(k)
        /\ Len(stationEvents[k]) = 1
        /\ collectionEvents # <<>> /\ Last(collectionEvents).target # k

\* C2: select() followed by deselect() leaves the station Unselected with its
\* label glyph and every glyph of its label's stationIds in the normal
\* layers, none in a highlight layer: as observed after the two events, and
\* for the two calls applied to any reachable state of an Unselected station
\* (where glyphs that were in the normal layers are in the same layer again).
C2_SelectThenDeselect ==
    \A k \in Known :
        /\ ( /\ Len(collectionEvents) >= 2
             /\ Last(collectionEvents) = SelectionChange("deselect", k)
             /\ collectionEvents[Len(collectionEvents) - 1] = SelectionChange("select", k) )
           => ~Selected(k) /\ InNormalLayers(layers, k)
        /\ ~Selected(k) =>
              LET r == StationDeselect(StationSelect(World, k).w, k)
              IN  /\ ~r.threw
                  /\ ~r.w.st[k].selected
                  /\ InNormalLayers(r.w.layers, k)
                  /\ InNormalLayers(layers, k) =>
                        \A n \in StationGlyphs(k) \cup {LabelNode(stationsMap[k].code)} :
                            ParentOf(r.w.layers, n) = ParentOf(layers, n)

\* C2 witness: a station with a label glyph and a station glyph has been
\* selected and then deselected.
C2_Witness ==
    \E k \in Known :
        /\ call.op = "Station.deselect" /\ call.arg = <<k>>
        /\ Len(collectionEvents) >= 2
        /\ Last(collectionEvents) = SelectionChange("deselect", k)
        /\ collectionEvents[Len(collectionEvents) - 1] = SelectionChange("select", k)
        /\ StationGlyphs(k) # {}
        /\ InNormalLayers(layers, k)

\* C3 (as claimed): getSelection() returns exactly the codes under which the
\* Selected stations are known to select/deselect, each once.
C3_SelectionIsSelectedCodes ==
    call.op = "getSelection" =>
        /\ {call.result[i] : i \in 1..Len(call.result)} = {k \in Known : Selected(k)}
        /\ \A i, j \in 1..Len(call.result) : i # j => call.result[i] # call.result[j]

\* C4 (as claimed): every station's code is the key it is stored under, so
\* getByCode(s.code) is s and select(getSelection()) changes nothing.
C4_KeyedByCode ==
    /\ \A k \in Known : stationsMap[k].code = k
    /\ \A k \in Known : GetByCode(World, stationsMap[k].code) = k
    /\ CollectionSelect(World, CodeArray(GetSelection(World))) = Ok(World)

\* C5: select(codes) and deselect(codes) raise when any of the codes is not a
\* station code of the scheme.
C5_UnknownCodeRaises ==
    (call.op \in {"select", "deselect"}
        /\ \E i \in 1..Len(call.arg) : call.arg[i] \notin DOMAIN metadata.stations)
    => call.threw

\* C5 witness: select of a known code followed by an unknown one has raised.
C5_Witness ==
    /\ call.op = "select"
    /\ call.arg = <<1, NumStations + 1>>
    /\ call.threw

\* C6: getByCode returns the station built from metadata.stations[code] for a
\* code the metadata holds and undefined, without raising, for any other
\* code, and changes no state.
C6_Step ==
    \A code \in Codes :
        (call'.op = "getByCode" /\ call'.arg = <<code>>) =>
            /\ ~call'.threw
            /\ code \in DOMAIN metadata.stations =>
                  /\ call'.result = <<code>>
                  /\ code \in Known
                  /\ stationsMap[code] =
                        [Station(metadata.stations[code]) EXCEPT !.selected = Selected(code)]
            /\ code \notin DOMAIN metadata.stations => call'.result = <<Undefined>>
            /\ UNCHANGED program

C6_GetByCode == [][C6_Step]_vars

\* C6 witness: getByCode of a code that is no metadata key, though it is the
\* code field of a station, returned undefined.
C6_Witness ==
    /\ call.op = "getByCode"
    /\ call.arg[1] \notin DOMAIN metadata.stations
    /\ \E k \in Known : stationsMap[k].code = call.arg[1]
    /\ call.result = <<Undefined>>

\* C7: getSelection() lists the code fields of the Selected stations in the
\* collection's insertion order, whatever the order in which they were
\* selected.
C7_SelectionInCollectionOrder ==
    call.op = "getSelection" =>
        LET chosen == SelectSeq(items, LAMBDA k : Selected(k))
        IN  /\ Len(call.result) = Len(chosen)
            /\ \A i \in 1..Len(chosen) : call.result[i] = stationsMap[chosen[i]].code

\* C7 witness: the later station of the collection was selected first, and
\* getSelection() still lists the earlier one first.
C7_Witness ==
    /\ call.op = "getSelection"
    /\ Len(collectionEvents) = 2
    /\ collectionEvents[1].target = items[2]
    /\ collectionEvents[2].target = items[1]
    /\ Len(call.result) = 2
    /\ call.result[1] = stationsMap[items[1]].code
    /\ call.result[2] = stationsMap[items[2]].code
    /\ call.result[1] # call.result[2]

\* The whitespace-delimited tokens of a title: the pieces between whitespace
\* characters (a piece may be empty, as the pieces of split are).
RECURSIVE WhitespaceTokens(_)
WhitespaceTokens(title) ==
    IF \A i \in 1..Len(title) : title[i] \notin Whitespace THEN {title}
    ELSE LET i == CHOOSE j \in 1..Len(title) : title[j] \in Whitespace
         IN  WhitespaceTokens(SubSeq(title, 1, i - 1))
                \cup WhitespaceTokens(SubSeq(title, i + 1, Len(title)))

StartsWith(token, request) ==
    Len(request) <= Len(token) /\ SubSeq(token, 1, Len(request)) = request

\* C8 (as claimed): search(request) yields exactly the stations, in collection
\* order, whose title has a whitespace-delimited token starting with request.
C8_SearchByTokens ==
    call.op = "search" =>
        call.result =
            SelectSeq(items, LAMBDA k :
                \E t \in WhitespaceTokens(stationsMap[k].title) : StartsWith(t, call.arg))

\* C9: a click toggles the station and fires exactly one 'selectionchange'
\* event, of the type of the new state.
C9_Step ==
    \A k \in Known :
        (call'.op = "click" /\ call'.arg = <<k>>) =>
            /\ ~call'.threw
            /\ Selected(k)' = ~Selected(k)
            /\ stationEvents'[k] =
                  Append(stationEvents[k], SelectionChange(TypeOf(~Selected(k)), k))
            /\ \A j \in Known \ {k} :
                  Selected(j)' = Selected(j) /\ stationEvents'[j] = stationEvents[j]

C9_ClickToggles == [][C9_Step]_vars

\* C9 witness: the second click on a station has deselected it.
C9_Witness ==
    \E k \in Known :
        /\ call.op = "click" /\ call.arg = <<k>>
        /\ ~Selected(k)
        /\ Len(stationEvents[k]) = 2

\* C10: the events the collection observes in a step are exactly the events
\* the stations fire in it, each once, with the station as target, and, for a
\* batch call, in the order of the codes that caused them.
NewEvents == SubSeq(collectionEvents', Len(collectionEvents) + 1, Len(collectionEvents'))

FirstAt(codes, k) == CHOOSE i \in 1..Len(codes) : codes[i] = k /\ \A h \in 1..(i - 1) : codes[h] # k

C10_Step ==
    /\ Len(collectionEvents') >= Len(collectionEvents)
    /\ SubSeq(collectionEvents', 1, Len(collectionEvents)) = collectionEvents
    /\ \A k \in Known :
          stationEvents'[k] =
              stationEvents[k] \o SelectSeq(NewEvents, LAMBDA e : e.target = k)
    /\ \A i \in 1..Len(NewEvents) : NewEvents[i].target \in Known
    /\ call'.op \in {"select", "deselect"} =>
          \A i, j \in 1..Len(NewEvents) :
              i < j => FirstAt(call'.arg, NewEvents[i].target)
                          < FirstAt(call'.arg, NewEvents[j].target)

C10_EventsBubble == [][C10_Step]_vars

\* C10 witness: a batch select of two stations, the later one first, has been
\* observed at the collection in that order.
C10_Witness ==
    /\ call.op = "select"
    /\ call.arg = <<2, 1>>
    /\ collectionEvents = <<SelectionChange("select", 2), SelectionChange("select", 1)>>
    /\ stationEvents[1] = <<SelectionChange("select", 1)>>
    /\ stationEvents[2] = <<SelectionChange("select", 2)>>

\* ============================================ SchemeView and SchemeLayer
\* The side of the square the scheme is fitted into at zoom 0.
REF == 256
\* options.maxZoom, the default
MaxZoom == 3
\* Bounds of the inputs: diagram sides are multiples of SideStep, up to
\* MaxSideSteps of them; pane events delivered before the run stops.
SideStep == 96
MaxSideSteps == 4
MaxNotifications == 2

Sides == {k * SideStep : k \in 1..MaxSideSteps}
Zooms == 0..MaxZoom
\* pane.toClientPixels([0, 0]): where the host puts the global origin.
Origins == {<<0, 0>>, <<-64, 32>>}
\* Points handed to toClientPixels / fromClientPixels.
Points == {<<Num(0), Num(0)>>, <<Num(96), Num(48)>>, <<Num(-5), Num(300)>>}
\* No point at all: a denominator no number has.
NoPoint == <<[n |-> 0, d |-> 0], [n |-> 0, d |-> 0]>>
PaneEvents == {"viewportchange", "zoomchange", "clientpixelschange"}

\* Scheme.getSize: [this._metaData.width, this._metaData.height], each
\* <<value>>, or <<>> for undefined.
GetSize(metaData) ==
    << IF "width" \in DOMAIN metaData THEN <<metaData.width>> ELSE <<>>,
       IF "height" \in DOMAIN metaData THEN <<metaData.height>> ELSE <<>> >>

\* The number an arithmetic operation takes a value for: NaN for undefined.
ToNumber(x) == IF x = <<>> THEN NaN ELSE Num(x[1])

\* Mutant of the base scale: taken from the width alone.
ZeroZoomScaleWidthOnly(selfSize) == Over(Num(REF), selfSize[1])

\* this._zeroZoomScale = Math.min(256 / size[0], 256 / size[1])
ZeroZoomScale(selfSize) ==
    Min(Over(Num(REF), selfSize[1]), Over(Num(REF), selfSize[2]))

\* Mutant of the base offset: the free room is not halved.
OffsetNotHalved(selfSize, zeroZoomScale) ==
    <<Floor(Minus(Num(REF), Times(selfSize[1], zeroZoomScale))),
      Floor(Minus(Num(REF), Times(selfSize[2], zeroZoomScale)))>>

\* this._offset = [Math.floor((256 - size[0] * scale) / 2), (same for 1)]
Offset(selfSize, zeroZoomScale) ==
    <<Floor(Over(Minus(Num(REF), Times(selfSize[1], zeroZoomScale)), Num(2))),
      Floor(Over(Minus(Num(REF), Times(selfSize[2], zeroZoomScale)), Num(2)))>>

\* new SchemeView(scheme), size being scheme.getSize(): the scale that fits
\* the diagram into the square, the offset that centres it, and the root
\* node with the diagram's own size and no transform. Nothing tests the
\* size: selfSize is held as the numbers the arithmetic takes it for.
SchemeView(size) ==
    LET selfSize == <<ToNumber(size[1]), ToNumber(size[2])>>
        zeroZoomScale == ZeroZoomScale(selfSize)
    IN  [selfSize |-> selfSize,
         zeroZoomScale |-> zeroZoomScale,
         offset |-> Offset(selfSize, zeroZoomScale),
         style |-> [transformed |-> FALSE,
                    translate |-> <<Num(0), Num(0)>>,
                    width |-> selfSize[1],
                    height |-> selfSize[2]]]

\* Mutant of updatePosition: the node is moved relative to where it is.
UpdatePositionRelative(v, clientCenter, mapScale) ==
    LET scale == Times(v.zeroZoomScale, mapScale)
        offset == <<Plus(v.style.translate[1], Num(clientCenter[1])),
                    Plus(v.style.translate[2], Num(clientCenter[2]))>>
    IN  [v EXCEPT !.style = [transformed |-> TRUE,
                             translate |-> offset,
                             width |-> Times(v.selfSize[1], scale),
                             height |-> Times(v.selfSize[2], scale)]]

\* SchemeView.updatePosition(clientCenter, mapScale): translate(offset) on
\* the root node, and its width and height scaled.
UpdatePosition(v, clientCenter, mapScale) ==
    LET scale == Times(v.zeroZoomScale, mapScale)
        offset == <<Plus(v.offset[1], Num(clientCenter[1])),
                    Plus(v.offset[2], Num(clientCenter[2]))>>
    IN  [v EXCEPT !.style = [transformed |-> TRUE,
                             translate |-> offset,
                             width |-> Times(v.selfSize[1], scale),
                             height |-> Times(v.selfSize[2], scale)]]

\* SchemeView.toClientPixels(globalPixels, zoom)
ToClientPixels(v, globalPixels, zoom) ==
    LET mapScale == Pow2(zoom)
        zeroZoomPixels == <<Over(globalPixels[1], mapScale), Over(globalPixels[2], mapScale)>>
    IN  <<Minus(Over(zeroZoomPixels[1], v.zeroZoomScale), v.offset[1]),
          Minus(Over(zeroZoomPixels[2], v.zeroZoomScale), v.offset[2])>>

\* Mutant of fromClientPixels: the offset is added after scaling.
FromClientPixelsOffsetLast(v, clientPixels, zoom) ==
    LET zeroZoomPixels == <<Plus(Times(clientPixels[1], v.zeroZoomScale), v.offset[1]),
                            Plus(Times(clientPixels[2], v.zeroZoomScale), v.offset[2])>>
        mapScale == Pow2(zoom)
    IN  <<Times(zeroZoomPixels[1], mapScale), Times(zeroZoomPixels[2], mapScale)>>

\* SchemeView.fromClientPixels(clientPixels, zoom)
FromClientPixels(v, clientPixels, zoom) ==
    LET zeroZoomPixels == <<Times(Plus(clientPixels[1], v.offset[1]), v.zeroZoomScale),
                            Times(Plus(clientPixels[2], v.offset[2]), v.zeroZoomScale)>>
        mapScale == Pow2(zoom)
    IN  <<Times(zeroZoomPixels[1], mapScale), Times(zeroZoomPixels[2], mapScale)>>

\* SchemeLayer._updateSchemePosition: one updatePosition call with what the
\* pane reports now.
UpdateSchemePosition(vw) ==
    [vw EXCEPT !.v = UpdatePosition(@, vw.pane.origin, Pow2(vw.pane.zoom)),
               !.updates = @ + 1,
               !.last = [center |-> vw.pane.origin, zoom |-> vw.pane.zoom],
               !.steps = Append(@, "updatePosition")]

\* Mutant of onAddToMap: only 'viewportchange' is listened to.
SubscribeViewportOnly(vw) ==
    [vw EXCEPT !.layer.handlers =
                   [t \in PaneEvents |-> IF t = "viewportchange" THEN 1 ELSE 0],
               !.steps = Append(@, "events.add")]

\* this._pane.events.add([three types], this._updateSchemePosition, this)
Subscribe(vw) ==
    [vw EXCEPT !.layer.handlers = [t \in PaneEvents |-> 1],
               !.steps = Append(@, "events.add")]

\* Mutant of onAddToMap: the view is not positioned when the layer is added.
OnAddToMapUnpositioned(vw) ==
    LET subscribed == Subscribe([vw EXCEPT !.layer.attached = TRUE])
    IN  [subscribed EXCEPT !.layer.appended = TRUE,
                           !.steps = Append(@, "appendChild")]

\* SchemeLayer.onAddToMap: position the view, subscribe, append the node.
\* `steps` lists the calls the layer has made, in their order.
OnAddToMap(vw) ==
    LET positioned == UpdateSchemePosition([vw EXCEPT !.layer.attached = TRUE])
        subscribed == Subscribe(positioned)
    IN  [subscribed EXCEPT !.layer.appended = TRUE,
                           !.steps = Append(@, "appendChild")]

\* The pane fires one event: every listener of its type runs once.
Deliver(vw, type) ==
    IF vw.layer.handlers[type] = 1 THEN UpdateSchemePosition(vw) ELSE vw

NoProbe == [op |-> "none", arg |-> NoPoint, zoom |-> 0, out |-> NoPoint, source |-> NoPoint]

\* The view built from a loaded scheme, its layer not yet added to the map.
NewView(size) ==
    [v |-> SchemeView(size),
     layer |-> [attached |-> FALSE, appended |-> FALSE,
                handlers |-> [t \in PaneEvents |-> 0]],
     pane |-> [zoom |-> 0, origin |-> <<0, 0>>],
     updates |-> 0,
     fired |-> 0,
     notified |-> 0,
     last |-> [center |-> <<0, 0>>, zoom |-> 0],
     steps |-> <<>>,
     probe |-> NoProbe]

InitView ==
    /\ Loaded(PlainMetadata)
    /\ \E size \in Sides \X Sides :
          view = NewView(GetSize([width |-> size[1], height |-> size[2]]))
    /\ load = NotModelled
    /\ annot = NotModelled

\* map.layers.add(new SchemeLayer(schemeView))
AddToMap ==
    /\ ~view.layer.attached
    /\ view' = OnAddToMap(view)
    /\ UNCHANGED <<collection, load, annot>>

\* The host moves or zooms the map and the pane fires one of its events.
PaneEvent(type, zoom, origin) ==
    /\ view.fired < MaxNotifications
    /\ LET moved == [view EXCEPT !.pane = [zoom |-> zoom, origin |-> origin],
                                 !.fired = @ + 1,
                                 !.notified = IF view.layer.attached THEN @ + 1 ELSE @]
       IN  view' = Deliver(moved, type)
    /\ UNCHANGED <<collection, load, annot>>

\* schemeView.toClientPixels(globalPixels, zoom); the argument may be what
\* fromClientPixels has just returned.
CallToClientPixels(globalPixels, zoom) ==
    /\ view' = [view EXCEPT !.probe =
                  [op |-> "toClientPixels", arg |-> globalPixels, zoom |-> zoom,
                   out |-> ToClientPixels(view.v, globalPixels, zoom),
                   source |-> IF /\ view.probe.op = "fromClientPixels"
                                 /\ view.probe.out = globalPixels
                                 /\ view.probe.zoom = zoom
                              THEN view.probe.arg ELSE NoPoint]]
    /\ UNCHANGED <<collection, load, annot>>

\* schemeView.fromClientPixels(clientPixels, zoom); the argument may be what
\* toClientPixels has just returned.
CallFromClientPixels(clientPixels, zoom) ==
    /\ view' = [view EXCEPT !.probe =
                  [op |-> "fromClientPixels", arg |-> clientPixels, zoom |-> zoom,
                   out |-> FromClientPixels(view.v, clientPixels, zoom),
                   source |-> IF /\ view.probe.op = "toClientPixels"
                                 /\ view.probe.out = clientPixels
                                 /\ view.probe.zoom = zoom
                              THEN view.probe.arg ELSE NoPoint]]
    /\ UNCHANGED <<collection, load, annot>>

NextView ==
    \/ AddToMap
    \/ \E type \in PaneEvents, zoom \in Zooms, origin \in Origins :
          PaneEvent(type, zoom, origin)

SpecView == InitView /\ [][NextView]_vars

\* Metadata of a scheme as far as its size goes: width and height, or one
\* of them, or neither.
SizeMetadata ==
    {[k \in D |-> IF k = "width" THEN size[1] ELSE size[2]] :
        size \in {SideStep, 2 * SideStep} \X {SideStep, 2 * SideStep},
        D \in SUBSET {"width", "height"}}

\* The view built from a scheme whose metadata parsed, whatever it holds.
InitSize ==
    /\ Loaded(PlainMetadata)
    /\ \E metaData \in SizeMetadata : view = NewView(GetSize(metaData))
    /\ load = NotModelled
    /\ annot = NotModelled

SpecSize == InitSize /\ [][NextView]_vars

\* The arguments of a conversion: a sample point, or what the conversion
\* the other way has just returned for a sample point.
Arguments(op) ==
    Points \cup (IF view.probe.op = op /\ view.probe.arg \in Points
                 THEN {view.probe.out} ELSE {})

NextConvert ==
    \/ \E zoom \in Zooms : \E p \in Arguments("fromClientPixels") :
          CallToClientPixels(p, zoom)
    \/ \E zoom \in Zooms : \E p \in Arguments("toClientPixels") :
          CallFromClientPixels(p, zoom)

SpecConvert == InitView /\ [][NextConvert]_vars

\* ===================================== Scheme._load and TransportMap.create
\* A vow Deferred and its promise. `log` lists the settlements that took
\* effect, in order.
Pending == [state |-> "pending", value |-> "none", log |-> <<>>]

Settle(d, state, value) ==
    [state |-> state, value |-> value,
     log |-> Append(d.log, [state |-> state, value |-> value])]

\* deferred.resolve(value): nothing once the promise is settled.
Resolve(d, value) == IF d.state = "pending" THEN Settle(d, "resolved", value) ELSE d

\* Mutant of reject: the reason of a settled promise is replaced.
RejectOverwrites(d, reason) == Settle(d, "rejected", reason)

\* deferred.reject(reason): nothing once the promise is settled.
Reject(d, reason) == IF d.state = "pending" THEN Settle(d, "rejected", reason) ELSE d

\* What the server holds under the scheme's url.
Bodies == {"valid", "malformedXml", "noMetadata", "emptyMetadata", "badJson"}
\* xhr.responseText of a request that failed at the network level.
EmptyBody == "empty"
\* The event object handed to xhr.onerror.
TransportError == "ProgressEvent"

\* (new DOMParser()).parseFromString(text, "text/xml"): the root element and
\* the text of its metadata element. Text that is not well-formed does not
\* raise: the result is a document with a parsererror element. For text that
\* breaks off after the metadata element, a parser that keeps the tree read
\* so far returns the svg root with its metadata and the parsererror inside;
\* the other parsers return a document holding the parsererror only.
ParseFromString(text, keepsPartialTree) ==
    CASE text = "valid" -> [root |-> "svg", metadata |-> "json"]
      [] text = "malformedXml" ->
            IF keepsPartialTree THEN [root |-> "svg", metadata |-> "json"]
            ELSE [root |-> "parsererror", metadata |-> "absent"]
      [] text = "noMetadata" -> [root |-> "svg", metadata |-> "absent"]
      [] text = "emptyMetadata" -> [root |-> "svg", metadata |-> "empty"]
      [] text = "badJson" -> [root |-> "svg", metadata |-> "badJson"]
      [] OTHER -> [root |-> "parsererror", metadata |-> "absent"]

\* The body of the try block of xhr.onreadystatechange: the fields of the
\* scheme it sets and the exception it ends with ("none": it reached
\* deferred.resolve).
TryParse(l) ==
    LET doc == ParseFromString(l.responseText, l.keepsPartialTree)
        read == [l.scheme EXCEPT !.text = l.responseText, !.node = doc.root]
    IN  CASE doc.metadata = "absent" -> [scheme |-> read, raised |-> "TypeError"]
          [] doc.metadata = "empty" -> [scheme |-> read, raised |-> "TypeError"]
          [] doc.metadata = "badJson" -> [scheme |-> read, raised |-> "SyntaxError"]
          [] OTHER -> [scheme |-> [read EXCEPT !.metaData = "parsed"], raised |-> "none"]

\* xhr.onreadystatechange
OnReadyStateChange(l) ==
    IF l.readyState # 4 THEN l
    ELSE LET r == TryParse(l)
         IN  IF r.raised = "none"
             THEN [l EXCEPT !.scheme = r.scheme, !.deferred = Resolve(@, "scheme")]
             ELSE [l EXCEPT !.scheme = r.scheme, !.deferred = Reject(@, r.raised)]

\* xhr.onerror
OnError(l, e) == [l EXCEPT !.deferred = Reject(@, e)]

\* Reading obj[key]: <<value>>, or <<>> for undefined.
Lookup(obj, key) == IF key \in DOMAIN obj THEN <<obj[key]>> ELSE <<>>

\* Mutant of extend: a field the target has keeps the target's value.
ExtendKeepsTarget(target, source) ==
    [k \in DOMAIN target \cup DOMAIN source |->
        IF k \in DOMAIN target THEN target[k] ELSE source[k]]

\* util.extend(target, source): the fields of source over those of target.
Extend(target, source) ==
    [k \in DOMAIN target \cup DOMAIN source |->
        IF k \in DOMAIN source THEN source[k] ELSE target[k]]

\* The fields named in D of a record.
Restrict(record, D) == [k \in D |-> record[k]]

\* The defaults the constructor extends the state with.
StateDefaults == [shaded |-> FALSE, center |-> <<0, 0>>, selection |-> <<>>]

\* The fields of the facade that _onSchemeLoad sets, in its order.
FacadeFields == <<"_scheme", "_schemeView", "_map", "stations", "annotations", "events">>

\* The most 'shadechange' events fired on one facade.
MaxShadeEvents == 2

\* SchemeView.fadeIn / fadeOut: getElementById('scheme-layer') is null when
\* the document has no such element, and reading its style raises.
\* `opacity` is style.opacity of the element.
SetOpacity(l, opacity) ==
    IF l.hasSchemeLayer THEN [l |-> [l EXCEPT !.opacity = opacity], raised |-> "none"]
    ELSE [l |-> l, raised |-> "TypeError"]
FadeOut(l) == SetOpacity(l, "")
FadeIn(l) == SetOpacity(l, "0.5")

\* this.events.fire('shadechange', {type: type, target: this})
FireShadeChange(l, type) == [l EXCEPT !.shadeEvents = Append(@, type)]

\* TransportMap.shade: the view fades in, then the event is fired.
Shade(l) ==
    LET faded == FadeIn(l)
    IN  IF faded.raised # "none" THEN faded
        ELSE [l |-> FireShadeChange(faded.l, "shade"), raised |-> "none"]

\* TransportMap.unshade: the view fades out, then the event is fired.
Unshade(l) ==
    LET faded == FadeOut(l)
    IN  IF faded.raised # "none" THEN faded
        ELSE [l |-> FireShadeChange(faded.l, "unshade"), raised |-> "none"]

\* TransportMap._onSchemeLoad(scheme): the fields set, the collection after
\* stations.select(state.selection), the facade after shade(), and the
\* exception it ends with.
OnSchemeLoad(l, w) ==
    LET selected == CollectionSelect(w, CodeArray(l.state.selection))
        shaded == IF l.state.shaded THEN Shade(l) ELSE [l |-> l, raised |-> "none"]
    IN  IF selected.threw
        THEN [fields |-> {FacadeFields[i] : i \in 1..4}, w |-> selected.w,
              l |-> l, raised |-> "TypeError"]
        ELSE [fields |-> {FacadeFields[i] : i \in 1..6}, w |-> selected.w,
              l |-> shaded.l, raised |-> shaded.raised]

\* The selections a caller may put into the state: none, a station, two
\* stations, a code no station has.
Selections == {<<>>, <<1>>, <<2, 1>>, <<NumStations + 1>>}

\* The states a caller may pass: any of selection and shaded, or neither.
SuppliedStates ==
    {Restrict([selection |-> selection, shaded |-> shaded], D) :
        selection \in Selections, shaded \in BOOLEAN,
        D \in SUBSET {"selection", "shaded"}}

\* No shade or unshade call made yet.
NoShadeCall == [op |-> "none", raised |-> "none", before |-> ""]

\* TransportMap.create(city, container, state): the request is sent and
\* the promise of _loadScheme().then(_onSchemeLoad) is returned.
Created(body, network, keepsPartialTree, state, hasSchemeLayer) ==
    [body |-> body,
     network |-> network,
     keepsPartialTree |-> keepsPartialTree,
     given |-> state,
     state |-> Extend(StateDefaults, state),
     hasSchemeLayer |-> hasSchemeLayer,
     opacity |-> "",
     shadeEvents |-> <<>>,
     shadeCall |-> NoShadeCall,
     readyState |-> 1,
     responseText |-> EmptyBody,
     errorDelivered |-> FALSE,
     scheme |-> [text |-> "", node |-> "null", metaData |-> "null"],
     deferred |-> Pending,
     fields |-> {},
     future |-> Pending]

\* The collection variables hold the collection that _onSchemeLoad builds
\* from a body whose metadata parses; the facade has it from the moment its
\* field `stations` is set.
InitLoad ==
    /\ Loaded(PlainMetadata)
    /\ view = NotModelled
    /\ annot = NotModelled
    /\ \E body \in Bodies, network \in {"ok", "fails"}, keepsPartialTree \in BOOLEAN,
          state \in SuppliedStates, hasSchemeLayer \in BOOLEAN :
          load = Created(body, network, keepsPartialTree, state, hasSchemeLayer)

\* The request advances to readyState and the handler is called. A request
\* that fails at the network level goes to readyState 4 with an empty
\* response.
ReadyStateChange(readyState) ==
    /\ load.readyState < readyState
    /\ load.network = "fails" => readyState = 4
    /\ LET text == IF readyState >= 3 /\ load.network = "ok" THEN load.body ELSE EmptyBody
       IN  load' = OnReadyStateChange([load EXCEPT !.readyState = readyState,
                                                    !.responseText = text])
    /\ UNCHANGED <<collection, view, annot>>

\* The transport calls xhr.onerror, once, before or after the request
\* reached readyState 4.
Error ==
    /\ ~load.errorDelivered
    /\ load' = OnError([load EXCEPT !.errorDelivered = TRUE], TransportError)
    /\ UNCHANGED <<collection, view, annot>>

\* The fulfilled callback of _loadScheme().then(...): _onSchemeLoad runs
\* and its return value, or the exception it raises, settles the promise.
SchemeLoaded ==
    /\ load.deferred.state = "resolved"
    /\ load.future.state = "pending"
    /\ LET r == OnSchemeLoad(load, World)
       IN  /\ load' = [r.l EXCEPT !.fields = r.fields,
                                  !.future = IF r.raised = "none"
                                             THEN Resolve(@, "this")
                                             ELSE Reject(@, r.raised)]
           /\ stationsMap' = r.w.st
           /\ items' = r.w.items
           /\ parent' = r.w.parent
           /\ layers' = r.w.layers
           /\ rect' = r.w.rect
           /\ stationEvents' = r.w.sev
           /\ collectionEvents' = r.w.cev
           /\ metadata' = r.w.meta
           /\ call' = [op |-> "select", arg |-> <<load.state.selection>>, result |-> <<>>,
                       threw |-> r.raised # "none" /\ "events" \notin r.fields]
    /\ UNCHANGED <<view, annot>>

\* No rejected callback was given to then(): the rejection passes through.
SchemeFailed ==
    /\ load.deferred.state = "rejected"
    /\ load.future.state = "pending"
    /\ load' = [load EXCEPT !.future = Reject(@, load.deferred.value)]
    /\ UNCHANGED <<collection, view, annot>>

\* A call of shade() or unshade() on the facade that the resolved promise
\* of create gave to the caller.
Faded(r, op) ==
    /\ load.future.state = "resolved"
    /\ Len(load.shadeEvents) < MaxShadeEvents
    /\ load' = [r.l EXCEPT !.shadeCall = [op |-> op, raised |-> r.raised,
                                          before |-> load.opacity]]
    /\ UNCHANGED <<collection, view, annot>>

\* map.shade()
CallShade == Faded(Shade(load), "shade")

\* map.unshade()
CallUnshade == Faded(Unshade(load), "unshade")

NextLoad ==
    \/ \E readyState \in 2..4 : ReadyStateChange(readyState)
    \/ Error
    \/ SchemeLoaded
    \/ SchemeFailed
    \/ CallShade
    \/ CallUnshade

SpecLoad == InitLoad /\ [][NextLoad]_vars

\* ========================================================= Station.annotate
\* Annotate calls made before the run stops.
MaxAnnotations == 2

\* Station.getNode: the element 'station-' + this.code, or null.
GetNode(w, k) == GetElementById(w, StationNode(w.st[k].code))

\* Station.getPosition: the middle of the box of getNode(); reading the box
\* of null raises.
GetPosition(w, k) ==
    IF GetNode(w, k) = Null THEN [raised |-> "TypeError", of |-> Null]
    ELSE [raised |-> "none", of |-> GetNode(w, k)]

\* No annotate call made yet.
NoAnnotations ==
    [calls |-> <<>>,
     annotations |-> [k \in StationKeys |-> <<>>],
     onMap |-> {},
     collection |-> {}]

\* station.annotate(properties, options, dontAddToMap): a new deferred, the
\* Annotation module required, the promise returned.
StationAnnotate(a, k, dontAddToMap) ==
    [a EXCEPT !.calls = Append(@, [station |-> k,
                                   dontAddToMap |-> dontAddToMap,
                                   require |-> "pending",
                                   deferred |-> Pending])]

\* new Annotation(position, properties, options): a placemark at position.
Annotation(i, position) == [annotation |-> i, position |-> position]

\* Mutant of the callback: the annotation is put on the map in any case.
AnnotationProvidedAlwaysOnMap(a, w, i) ==
    LET c == a.calls[i]
        position == GetPosition(w, c.station)
    IN  IF position.raised # "none"
        THEN [a EXCEPT !.calls[i].require = "raised"]
        ELSE [a EXCEPT !.calls[i].require = "provided",
                       !.annotations[c.station] = Append(@, i),
                       !.onMap = @ \cup {i},
                       !.calls[i].deferred = Resolve(@, Annotation(i, position.of))]

\* The fulfilled callback given to spread(), for the i-th call: an exception
\* raised in it ends it there, and nothing in annotate catches it. The
\* annotation goes to the station's list and to the map's geoObjects; the
\* facade's AnnotationCollection is not touched.
AnnotationProvided(a, w, i) ==
    LET c == a.calls[i]
        position == GetPosition(w, c.station)
    IN  IF position.raised # "none"
        THEN [a EXCEPT !.calls[i].require = "raised"]
        ELSE [a EXCEPT !.calls[i].require = "provided",
                       !.annotations[c.station] = Append(@, i),
                       !.onMap = IF c.dontAddToMap THEN @ ELSE @ \cup {i},
                       !.calls[i].deferred = Resolve(@, Annotation(i, position.of))]

\* The rejected callback given to spread(): deferred.reject.bind(deferred)
AnnotationFailed(a, i, reason) ==
    [a EXCEPT !.calls[i].require = "failed",
              !.calls[i].deferred = Reject(@, reason)]

InitAnnotate ==
    /\ \E labelId \in LabelIdShapes :
          \E labels \in {LabelsByStation(labelId), LabelsSharingGlyphs} :
              Loaded(Metadata(labelId, labels, SampleTitles))
    /\ view = NotModelled
    /\ load = NotModelled
    /\ annot = NoAnnotations

Annotate(k, dontAddToMap) ==
    /\ Len(annot.calls) < MaxAnnotations
    /\ annot' = StationAnnotate(annot, k, dontAddToMap)
    /\ UNCHANGED <<collection, view, load>>

\* ymaps.modules.require fulfils its promise for the i-th call.
ModuleProvided(i) ==
    /\ annot.calls[i].require = "pending"
    /\ annot' = AnnotationProvided(annot, World, i)
    /\ UNCHANGED <<collection, view, load>>

\* ymaps.modules.require rejects its promise for the i-th call.
ModuleFailed(i) ==
    /\ annot.calls[i].require = "pending"
    /\ annot' = AnnotationFailed(annot, i, "ModuleError")
    /\ UNCHANGED <<collection, view, load>>

NextAnnotate ==
    \/ \E k \in StationKeys, dontAddToMap \in BOOLEAN : Annotate(k, dontAddToMap)
    \/ \E i \in 1..Len(annot.calls) : ModuleProvided(i)
    \/ \E i \in 1..Len(annot.calls) : ModuleFailed(i)

SpecAnnotate == InitAnnotate /\ [][NextAnnotate]_vars

\* ================================================= SchemeLayer zoom and scale
\* An IEEE double x 2^exp, its 53 mantissa bits indexed by weight: bits[52]
\* is the leading 1, bits[0] the last place. Zero has no leading 1.
MantissaBits == 0..52
DoubleZero == [zero |-> TRUE, exp |-> 0, bits |-> [i \in MantissaBits |-> 0]]

\* The bits 2^3 .. 2^0 of a hexadecimal digit.
HexBit(digit, j) == (digit \div (2 ^ j)) % 2

\* The double whose exponent is exp and whose 52 fraction bits are the 13
\* hexadecimal digits, first digit first.
FromHex(exp, digits) ==
    [zero |-> FALSE, exp |-> exp,
     bits |-> [i \in MantissaBits |->
                 IF i = 52 THEN 1
                 ELSE HexBit(digits[13 - (i \div 4)], i % 4)]]

\* floor(log2(z)) for an integer z >= 1
RECURSIVE FloorLog2(_)
FloorLog2(z) == IF z < 2 THEN 0 ELSE 1 + FloorLog2(z \div 2)

\* The double of a small non-negative integer: exact.
FromInteger(z) ==
    IF z = 0 THEN DoubleZero
    ELSE LET h == FloorLog2(z)
         IN  [zero |-> FALSE, exp |-> h,
              bits |-> [i \in MantissaBits |->
                          IF i >= 52 - h THEN (z \div (2 ^ (i - (52 - h)))) % 2 ELSE 0]]

\* The mantissa cut into five limbs of 13 bits, limb 0 the lowest.
LimbBits == 13
Radix == 2 ^ LimbBits
RECURSIVE Weigh(_, _, _)
Weigh(bits, from, n) ==
    IF n = 0 THEN 0
    ELSE (IF from \in MantissaBits THEN bits[from] ELSE 0)
         + 2 * Weigh(bits, from + 1, n - 1)
Limb(x, j) == Weigh(x.bits, LimbBits * j, LimbBits)

\* The double with the mantissa limbs m (m[5] the highest, holding bit 52).
FromLimbs(exp, m) ==
    [zero |-> FALSE, exp |-> exp,
     bits |-> [i \in MantissaBits |->
                 (m[(i \div LimbBits) + 1] \div (2 ^ (i % LimbBits))) % 2]]

\* x * y of two positive doubles: the exact product of the mantissas (long
\* multiplication of the limbs, p1 the lowest limb of the product), cut to
\* its leading 53 bits and rounded to nearest, ties to even.
Multiply(x, y) ==
    IF x.zero \/ y.zero THEN DoubleZero
    ELSE LET a1 == Limb(x, 0)  a2 == Limb(x, 1)  a3 == Limb(x, 2)
             a4 == Limb(x, 3)  a5 == Limb(x, 4)
             b1 == Limb(y, 0)  b2 == Limb(y, 1)  b3 == Limb(y, 2)
             b4 == Limb(y, 3)  b5 == Limb(y, 4)
             s1 == a1 * b1
             s2 == a1 * b2 + a2 * b1 + (s1 \div Radix)
             s3 == a1 * b3 + a2 * b2 + a3 * b1 + (s2 \div Radix)
             s4 == a1 * b4 + a2 * b3 + a3 * b2 + a4 * b1 + (s3 \div Radix)
             s5 == a1 * b5 + a2 * b4 + a3 * b3 + a4 * b2 + a5 * b1 + (s4 \div Radix)
             s6 == a2 * b5 + a3 * b4 + a4 * b3 + a5 * b2 + (s5 \div Radix)
             s7 == a3 * b5 + a4 * b4 + a5 * b3 + (s6 \div Radix)
             s8 == a4 * b5 + a5 * b4 + (s7 \div Radix)
             s9 == a5 * b5 + (s8 \div Radix)
             p1 == s1 % Radix  p2 == s2 % Radix  p3 == s3 % Radix  p4 == s4 % Radix
             p5 == s5 % Radix  p6 == s6 % Radix  p7 == s7 % Radix  p8 == s8 % Radix
             \* the product is p9 p8 ... p1, at least 2^104 and less than 2^106:
             \* p9 is 1, 2 or 3
             p9 == s9
             long == p9 >= 2
             \* the leading 53 bits: p9 .. p5 as they are, or moved down a bit
             kept == IF long
                     THEN << (p5 \div 2) + (p6 % 2) * (Radix \div 2),
                             (p6 \div 2) + (p7 % 2) * (Radix \div 2),
                             (p7 \div 2) + (p8 % 2) * (Radix \div 2),
                             (p8 \div 2) + (p9 % 2) * (Radix \div 2),
                             p9 \div 2 >>
                     ELSE <<p5, p6, p7, p8, p9>>
             guard == IF long THEN p5 % 2 ELSE p4 \div (Radix \div 2)
             sticky == IF long THEN p1 + p2 + p3 + p4 > 0
                       ELSE p1 + p2 + p3 + (p4 % (Radix \div 2)) > 0
             up == guard = 1 /\ (sticky \/ kept[1] % 2 = 1)
             r1 == kept[1] + 1
             r2 == kept[2] + (r1 \div Radix)
             r3 == kept[3] + (r2 \div Radix)
             r4 == kept[4] + (r3 \div Radix)
             r5 == kept[5] + (r4 \div Radix)
             exp == x.exp + y.exp + (IF long THEN 1 ELSE 0)
         IN  IF ~up THEN FromLimbs(exp, kept)
             ELSE IF r5 = 2 THEN FromLimbs(exp + 1, <<0, 0, 0, 0, 1>>)
             ELSE FromLimbs(exp, <<r1 % Radix, r2 % Radix, r3 % Radix, r4 % Radix, r5>>)

\* Math.LOG2E = 0x3FF71547652B82FE
LOG2E == FromHex(0, <<7, 1, 5, 4, 7, 6, 5, 2, 11, 8, 2, 15, 14>>)

\* Math.log(scale) for the scales 2^z the layer works with: the doubles
\* nearest to z * ln 2 (0x3FE62E42FEFA39EF for 2, 0x4000A2B23F3BAB73 for 8).
MathLog(scale) ==
    CASE scale = Num(1) -> DoubleZero
      [] scale = Num(2) -> FromHex(-1, <<6, 2, 14, 4, 2, 15, 14, 15, 10, 3, 9, 14, 15>>)
      [] scale = Num(4) -> FromHex(0, <<6, 2, 14, 4, 2, 15, 14, 15, 10, 3, 9, 14, 15>>)
      [] scale = Num(8) -> FromHex(1, <<0, 10, 2, 11, 2, 3, 15, 3, 11, 10, 11, 7, 3>>)
      [] scale = Num(16) -> FromHex(1, <<6, 2, 14, 4, 2, 15, 14, 15, 10, 3, 9, 14, 15>>)

\* SchemeLayer.SQUARE_SIZE
SQUARE_SIZE == 256

\* SchemeLayer.getScaleFromZoom(zoom): Math.pow(2, zoom), exact for the
\* integer zooms.
GetScaleFromZoom(zoom) == Pow2(zoom)

\* SchemeLayer.getZoomFromScale(scale): Math.log(scale) * Math.LOG2E
GetZoomFromScale(scale) == Multiply(MathLog(scale), LOG2E)

\* SchemeLayer.getFitZoom(containerNode), the container given by its
\* clientWidth and clientHeight.
GetFitZoom(container) ==
    GetZoomFromScale(Min(Over(Num(container[1]), Num(SQUARE_SIZE)),
                         Over(Num(container[2]), Num(SQUARE_SIZE))))

\* ================================================ TransportMap (constructor)
\* TransportMap.prototype._schemeIdByCity
SchemeIdByCity ==
    [moscow |-> 1, spb |-> 2, kiev |-> 8, kharkov |-> 9, minsk |-> 13]

\* The defaults the constructor extends the options with.
OptionDefaults == [path |-> "node_modules/metro-data/", minZoom |-> 0, maxZoom |-> MaxZoom]

\* [a, b, ...].join(''), each element read by Lookup: an undefined element
\* adds nothing, a number is written in decimal (ToString). The string is
\* kept as the list of its pieces.
RECURSIVE Join(_)
Join(parts) == IF parts = <<>> THEN <<>> ELSE Head(parts) \o Join(Tail(parts))

\* The url _loadScheme builds.
SchemeUrl(schemeId, options) ==
    Join(<< Lookup(options, "path"),
            IF schemeId = <<>> THEN <<>> ELSE <<ToString(schemeId[1])>>,
            <<".">>,
            Lookup(options, "lang"),
            <<".svg">> >>)

\* Cities a caller may name: the five of the mapping and one outside it.
Cities == DOMAIN SchemeIdByCity \cup {"paris"}

\* Options a caller may pass: any part of one full set.
SuppliedOptions ==
    {Restrict([path |-> "data/", lang |-> "en", maxZoom |-> 5], D) :
        D \in SUBSET {"path", "lang", "maxZoom"}}

\* Containers: the smaller side is SQUARE_SIZE * 2^z for a supported zoom z.
FitSides == {SQUARE_SIZE * (2 ^ z) : z \in Zooms}
Containers ==
    {c \in (FitSides \cup {side + 100 : side \in FitSides})
           \X (FitSides \cup {side + 100 : side \in FitSides}) :
        (c[1] \in FitSides /\ c[1] <= c[2]) \/ (c[2] \in FitSides /\ c[2] <= c[1])}

\* The states a caller may pass here: nothing, or a zoom.
SuppliedZooms == {<<>>, [zoom |-> FromInteger(1)]}

NoStaticCall == [op |-> "none", arg |-> 0, out |-> 0, source |-> -1]

\* Before TransportMap.create is called.
NotCreated ==
    [created |-> FALSE, city |-> "", container |-> <<0, 0>>, supplied |-> <<>>,
     given |-> <<>>, schemeId |-> <<>>, options |-> OptionDefaults, state |-> StateDefaults,
     requests |-> <<>>, raised |-> "none", probe |-> NoStaticCall]

\* new TransportMap(city, container, state, options) up to the request that
\* Scheme._load sends: nothing on the way checks the city.
TransportMap(l, city, container, state, options) ==
    LET schemeId == Lookup(SchemeIdByCity, city)
        opts == Extend(OptionDefaults, options)
        defaulted == Extend(StateDefaults, state)
        st == IF "zoom" \in DOMAIN defaulted THEN defaulted
              ELSE Extend(defaulted, [zoom |-> GetFitZoom(container)])
    IN  [l EXCEPT !.created = TRUE,
                  !.city = city,
                  !.container = container,
                  !.supplied = options,
                  !.given = state,
                  !.schemeId = schemeId,
                  !.options = opts,
                  !.state = st,
                  !.requests = Append(@, SchemeUrl(schemeId, opts)),
                  !.raised = "none"]

InitCreate ==
    /\ Loaded(PlainMetadata)
    /\ view = NotModelled
    /\ annot = NotModelled
    /\ load = NotCreated

\* TransportMap.create(city, container, state, options)
Create(city, container, state, options) ==
    /\ ~load.created
    /\ load' = TransportMap(load, city, container, state, options)
    /\ UNCHANGED <<collection, view, annot>>

\* SchemeLayer.getScaleFromZoom(zoom)
CallGetScaleFromZoom(zoom) ==
    /\ load' = [load EXCEPT !.probe = [op |-> "getScaleFromZoom", arg |-> zoom,
                                       out |-> GetScaleFromZoom(zoom), source |-> -1]]
    /\ UNCHANGED <<collection, view, annot>>

\* SchemeLayer.getZoomFromScale(scale), scale being what getScaleFromZoom
\* has just returned.
CallGetZoomFromScale ==
    /\ load.probe.op = "getScaleFromZoom"
    /\ load' = [load EXCEPT !.probe = [op |-> "getZoomFromScale", arg |-> load.probe.out,
                                       out |-> GetZoomFromScale(load.probe.out),
                                       source |-> load.probe.arg]]
    /\ UNCHANGED <<collection, view, annot>>

NextCreate ==
    \/ \E city \in Cities, container \in Containers,
          state \in SuppliedZooms, options \in SuppliedOptions :
          Create(city, container, state, options)
    \/ \E zoom \in Zooms : CallGetScaleFromZoom(zoom)
    \/ CallGetZoomFromScale

SpecCreate == InitCreate /\ [][NextCreate]_vars

\* ================================================================ the facade
\* The calls made on one facade before the run stops.
MaxFacadeCalls == 3

\* The facade as the resolved promise of create hands it over, for a valid
\* scheme with its 'scheme-layer' and no state supplied.
Wired ==
    LET created == Created("valid", "ok", FALSE, <<>>, TRUE)
        answered == OnReadyStateChange([created EXCEPT !.readyState = 4,
                                                       !.responseText = "valid"])
        r == OnSchemeLoad(answered, World)
    IN  [r.l EXCEPT !.fields = r.fields, !.future = Resolve(@, "this")]

\* _onSchemeLoad has run: the collection is built, the layer of the view is
\* added to the map, nothing is selected or annotated.
InitFacade ==
    /\ Loaded(PlainMetadata)
    /\ view = OnAddToMap(NewView(GetSize([width |-> SideStep, height |-> 2 * SideStep])))
    /\ load = Wired
    /\ annot = NoAnnotations

\* Calls that fired an event, moved the pane, annotated or shaded, so far.
FacadeCalls == Fired + view.fired + Len(annot.calls) + Len(load.shadeEvents)

\* svgNode.getBBox(): the box of a glyph in the units of the diagram, which
\* the transform of the root node does not enter. The glyphs of the model
\* are laid out along a diagonal.
GetBBox(node) ==
    [x |-> Num(16 * node[2] + 3), y |-> Num(40 * node[2] + 1),
     width |-> Num(7), height |-> Num(10)]

\* The projection the map is created with, CartesianProjection([[-1, -1],
\* [1, 1]]): the square of SQUARE_SIZE * 2^zoom global pixels laid over the
\* bounds, the first pixel row at the upper bound.
ProjectionBounds == <<<<-1, -1>>, <<1, 1>>>>

FromGlobalPixels(globalPixels, zoom) ==
    LET side == Times(Num(SQUARE_SIZE), Pow2(zoom))
        lower == ProjectionBounds[1]
        upper == ProjectionBounds[2]
    IN  <<Plus(Num(lower[1]),
               Over(Times(globalPixels[1], Num(upper[1] - lower[1])), side)),
          Minus(Num(upper[2]),
                Over(Times(globalPixels[2], Num(upper[2] - lower[2])), side))>>

\* Mutant of _getGeoBBox: the box is converted at zoom 0 and projected at
\* the zoom of the map.
GetGeoBBoxUnzoomed(v, zoom, bbox) ==
    <<FromGlobalPixels(FromClientPixels(v, <<bbox.x, bbox.y>>, 0), zoom),
      FromGlobalPixels(FromClientPixels(v, <<Plus(bbox.x, bbox.width),
                                             Plus(bbox.y, bbox.height)>>, 0), zoom)>>

\* Station._getGeoBBox(svgNode), zoom being this.getMap().getZoom()
GetGeoBBox(v, zoom, bbox) ==
    <<FromGlobalPixels(FromClientPixels(v, <<bbox.x, bbox.y>>, zoom), zoom),
      FromGlobalPixels(FromClientPixels(v, <<Plus(bbox.x, bbox.width),
                                             Plus(bbox.y, bbox.height)>>, zoom), zoom)>>

\* What getPosition returns for the box _getGeoBBox gave it.
Midpoint(bbox) ==
    <<Over(Plus(bbox[1][1], bbox[2][1]), Num(2)),
      Over(Plus(bbox[1][2], bbox[2][2]), Num(2))>>

\* station.getPosition(), at the zoom the map has now
CallGetPosition(k) ==
    LET position == GetPosition(World, k)
    IN  Becomes([w |-> World, threw |-> position.raised # "none"],
                "getPosition", <<k>>,
                IF position.raised # "none" THEN <<>>
                ELSE Midpoint(GetGeoBBox(view.v, view.pane.zoom, GetBBox(position.of))))

\* The calls of a run: two stations, two arrays of codes, one request, one
\* place the pane moves to; a call that fires, moves, annotates or shades
\* is made while fewer than MaxFacadeCalls were.
NextFacade ==
    \/ \E k \in {1, 2} : FacadeCalls < MaxFacadeCalls /\ Select(k)
    \/ \E k \in {1, 2} : FacadeCalls < MaxFacadeCalls /\ Deselect(k)
    \/ \E k \in {1, 2} : FacadeCalls < MaxFacadeCalls /\ Click(k)
    \/ \E codes \in {<<1>>, <<2, 1>>} :
          FacadeCalls < MaxFacadeCalls /\ SelectCodes(CodeArray(codes))
    \/ \E codes \in {<<2>>, <<2, 1>>} :
          FacadeCalls < MaxFacadeCalls /\ DeselectCodes(CodeArray(codes))
    \/ CallGetSelection
    \/ CallGetByCode(1)
    \/ CallSearch(<<"a">>)
    \/ \E k \in {1, 2} : CallGetPosition(k)
    \/ \E type \in PaneEvents :
          FacadeCalls < MaxFacadeCalls /\ PaneEvent(type, MaxZoom, <<-64, 32>>)
    \/ FacadeCalls < MaxFacadeCalls /\ Annotate(1, FALSE)
    \/ \E i \in 1..Len(annot.calls) : ModuleProvided(i)
    \/ \E i \in 1..Len(annot.calls) : ModuleFailed(i)
    \/ FacadeCalls < MaxFacadeCalls /\ CallShade
    \/ FacadeCalls < MaxFacadeCalls /\ CallUnshade

SpecFacade == InitFacade /\ [][NextFacade]_vars

\* ------------------------------------------------ claims C11 .. C16
\* What the root node shows of a diagram point: the translate, then the
\* point stretched as the node's box is stretched.
Drawn(v, p) ==
    <<Plus(v.style.translate[1], Times(p[1], Over(v.style.width, v.selfSize[1]))),
      Plus(v.style.translate[2], Times(p[2], Over(v.style.height, v.selfSize[2])))>>

Scaled(v, axis) == Times(v.selfSize[axis], v.zeroZoomScale)
\* The margins before and after the scaled diagram inside the square.
MarginBefore(v, axis) == v.offset[axis]
MarginAfter(v, axis) == Minus(Minus(Num(REF), Scaled(v, axis)), v.offset[axis])
Distance(x, y) == IF LessEq(x, y) THEN Minus(y, x) ELSE Minus(x, y)
Less(x, y) == LessEq(x, y) /\ x # y

\* C11: while the layer is attached, every event the pane fires, of any of
\* the three types, makes exactly one more updatePosition call, and that
\* call carries what the pane reports at that event.
C11_Step ==
    (view.layer.attached /\ view'.fired = view.fired + 1)
        => /\ view'.updates = view.updates + 1
           /\ view'.last = [center |-> view'.pane.origin, zoom |-> view'.pane.zoom]
C11_OneCallPerNotification == [][C11_Step]_vars
C11_Witness ==
    /\ view.layer.attached
    /\ view.notified = MaxNotifications
    /\ view.updates = MaxNotifications + 1

\* C12: once positioned, the root node's translate is baseOffset plus the
\* pixel origin of the last call, and its box is the diagram's size times
\* baseScale times the host scale of the last call, whatever came before.
C12_TransformOfLastCall ==
    view.updates > 0 =>
        LET v == view.v
            scale == Times(v.zeroZoomScale, Pow2(view.last.zoom))
        IN  /\ v.style.transformed
            /\ v.style.translate = <<Plus(v.offset[1], Num(view.last.center[1])),
                                     Plus(v.offset[2], Num(view.last.center[2]))>>
            /\ v.style.width = Times(v.selfSize[1], scale)
            /\ v.style.height = Times(v.selfSize[2], scale)
C12_Witness ==
    /\ view.updates = MaxNotifications + 1
    /\ view.last.center # <<0, 0>>
    /\ view.last.zoom = 2
    /\ view.v.offset # <<Num(0), Num(0)>>

\* C13: after updatePosition(o, 2^z) every diagram point p is drawn at
\* o + fromClientPixels(p, z).
C13_DrawnWhereMapped ==
    view.updates > 0 =>
        \A p \in Points :
            LET o == view.last.center
                g == FromClientPixels(view.v, p, view.last.zoom)
            IN  Drawn(view.v, p) = <<Plus(Num(o[1]), g[1]), Plus(Num(o[2]), g[2])>>

\* C14: a conversion applied to what the conversion the other way returned,
\* at the same zoom, gives back the point that one was called with.
C14_MutualInverses ==
    view.probe.source # NoPoint => view.probe.out = view.probe.source
C14_Witness ==
    /\ view.probe.op = "fromClientPixels"
    /\ view.probe.source = <<Num(96), Num(48)>>
    /\ view.probe.zoom = MaxZoom
    /\ view.probe.arg[1].d # 1
    /\ view.v.offset # <<Num(0), Num(0)>>

C16_Placed(axis) ==
    LET v == view.v
    IN  /\ v.offset[axis] = Floor(Over(Minus(Num(REF), Scaled(v, axis)), Num(2)))
        /\ LessEq(Num(0), MarginBefore(v, axis))
        /\ LessEq(Num(0), MarginAfter(v, axis))
        /\ Scaled(v, axis) = Num(REF) => v.offset[axis] = Num(0)

\* C16 as stated: ... and the two margins on each axis differ by at most 1.
C16_MarginsWithinOne ==
    \A axis \in {1, 2} :
        /\ C16_Placed(axis)
        /\ LessEq(Distance(MarginBefore(view.v, axis), MarginAfter(view.v, axis)), Num(1))
\* C16 amended: ... and the two margins on each axis differ by less than 2.
C16_MarginsWithinTwo ==
    \A axis \in {1, 2} :
        /\ C16_Placed(axis)
        /\ Less(Distance(MarginBefore(view.v, axis), MarginAfter(view.v, axis)), Num(2))
C16_Witness ==
    \E axis \in {1, 2} :
        /\ Less(Num(1), Distance(MarginBefore(view.v, axis), MarginAfter(view.v, axis)))
        /\ Less(Num(0), MarginBefore(view.v, axis))

\* ------------------------------------------------ claims C17 .. C19
\* C17: whatever the transport delivers and in whatever order, at most one
\* settlement of the load promise takes effect and it is the outcome the
\* promise keeps; once the handler has seen readyState 4 the promise is
\* settled; a resolved promise carries the scheme with its metadata parsed.
C17_SettlesOnce ==
    LET d == load.deferred
    IN  /\ Len(d.log) <= 1
        /\ d.state = "pending" <=> d.log = <<>>
        /\ d.state # "pending" => d.log[1] = [state |-> d.state, value |-> d.value]
        /\ load.readyState = 4 => d.state # "pending"
        /\ d.state = "resolved" => d.value = "scheme" /\ load.scheme.metaData = "parsed"
\* The error callback came first, the complete and valid response after it.
C17_Witness ==
    /\ load.errorDelivered
    /\ load.readyState = 4
    /\ load.responseText = "valid"
    /\ load.deferred.state = "rejected"
    /\ load.deferred.value = TransportError

\* C18: once a request that fails at the network level has reported its
\* error, the load promise is rejected with the transport error.
C18_RejectedWithTransportError ==
    (load.network = "fails" /\ load.errorDelivered)
        => load.deferred.state = "rejected" /\ load.deferred.value = TransportError

\* Loading fails: the text is not well-formed, has no metadata element or
\* no parsable metadata in it, or the request failed at the network level.
LoadFails ==
    \/ load.body \in {"malformedXml", "noMetadata", "emptyMetadata", "badJson"}
    \/ load.network = "fails"

\* C19: when loading fails the promise of create is never resolved, and a
\* resolved promise yields a facade whose scheme view, stations,
\* annotations and events are set.
C19_NoMapFromFailedLoad ==
    /\ LoadFails => load.future.state # "resolved"
    /\ load.future.state = "resolved" =>
          {"_schemeView", "stations", "annotations", "events"} \subseteq load.fields

\* ------------------------------------------------------------ claim C20
\* C20: once the module request of an annotate call has been answered, with
\* the module or with a failure, the promise the call returned is settled.
C20_SettledOnceAnswered ==
    \A i \in 1..Len(annot.calls) :
        annot.calls[i].require # "pending" => annot.calls[i].deferred.state # "pending"

\* ------------------------------------------------ claims C21 .. C22
InList(x, list) == \E j \in 1..Len(list) : list[j] = x

\* C21: an annotate promise that is resolved yields the annotation of that
\* call, anchored at the station's getPosition(), present in the station's
\* list, and on the map exactly when dontAddToMap was not set.
C21_ResolvedAnnotationPlaced ==
    \A i \in 1..Len(annot.calls) :
        LET c == annot.calls[i]
        IN  c.deferred.state = "resolved" =>
                /\ c.deferred.value = Annotation(i, GetPosition(World, c.station).of)
                /\ GetPosition(World, c.station).raised = "none"
                /\ InList(i, annot.annotations[c.station])
                /\ i \in annot.onMap <=> ~c.dontAddToMap
C21_Witness ==
    \E i, j \in 1..Len(annot.calls) :
        /\ annot.calls[i].deferred.state = "resolved"
        /\ annot.calls[j].deferred.state = "resolved"
        /\ annot.calls[i].dontAddToMap
        /\ ~annot.calls[j].dontAddToMap

\* C22: every annotation an annotate promise has resolved with is in the
\* facade's AnnotationCollection.
C22_ResolvedAnnotationInCollection ==
    \A i \in 1..Len(annot.calls) :
        annot.calls[i].deferred.state = "resolved" => i \in annot.collection

\* ------------------------------------------------ claims C23 .. C24, C28
\* C23: a TransportMap created for a city outside the mapping fails with a
\* ConfigurationError, and no request has been sent for it.
C23_UnknownCityFailsFast ==
    (load.created /\ load.city \notin DOMAIN SchemeIdByCity)
        => (load.raised = "ConfigurationError" /\ load.requests = <<>>)

\* The url the documentation gives: path, scheme id, ".", lang, ".svg", an
\* option the caller left out being "node_modules/metro-data/" or "ru".
DocumentedUrl(city, supplied) ==
    Join(<< <<IF "path" \in DOMAIN supplied THEN supplied.path
              ELSE "node_modules/metro-data/">>,
            <<ToString(SchemeIdByCity[city])>>,
            <<".">>,
            <<IF "lang" \in DOMAIN supplied THEN supplied.lang ELSE "ru">>,
            <<".svg">> >>)

\* C24: the one request of a TransportMap created for a city of the mapping
\* goes to {path}{schemeId}.{lang}.svg, an omitted option at its documented
\* default, whichever other options were supplied.
C24_FetchedWithDefaults ==
    (load.created /\ load.city \in DOMAIN SchemeIdByCity)
        => load.requests = <<DocumentedUrl(load.city, load.supplied)>>

\* The zoom z of a container whose smaller side is SQUARE_SIZE * 2^z.
FitZoomOf(container) ==
    CHOOSE z \in Zooms :
        SQUARE_SIZE * (2 ^ z) = IF container[1] <= container[2] THEN container[1]
                                ELSE container[2]

\* C28: getZoomFromScale(getScaleFromZoom(z)) is z for every supported
\* integer zoom z, and the zoom fitted to a container whose smaller side is
\* SQUARE_SIZE * 2^z is z.
C28_ExactInverses ==
    /\ load.probe.op = "getZoomFromScale"
           => load.probe.out = FromInteger(load.probe.source)
    /\ (load.created /\ "zoom" \notin DOMAIN load.given)
           => load.state.zoom = FromInteger(FitZoomOf(load.container))

\* ------------------------------------------------ claims C26, C29
\* C26: without a 'scheme-layer' element a shade or unshade call raises
\* nothing and leaves the opacity as it was; with the element, shade marks
\* it and unshade clears the mark.
C26_FadesAreGuarded ==
    load.shadeCall.op # "none" =>
        IF load.hasSchemeLayer
        THEN /\ load.shadeCall.raised = "none"
             /\ load.opacity = IF load.shadeCall.op = "shade" THEN "0.5" ELSE ""
        ELSE /\ load.shadeCall.raised = "none"
             /\ load.opacity = load.shadeCall.before

\* The stations a state names in its selection: none when it is left out.
Named(state) ==
    IF "selection" \in DOMAIN state
    THEN {state.selection[i] : i \in 1..Len(state.selection)}
    ELSE {}

\* C29: in the step that resolves the promise of create, the Selected
\* stations are those the supplied state names (none when selection is
\* left out) and the scheme is shaded exactly when the supplied state has
\* shaded set, whichever of the two fields was left out.
C29_Step ==
    (load.future.state = "pending" /\ load'.future.state = "resolved")
        => /\ {k \in DOMAIN stationsMap' : stationsMap'[k].selected} = Named(load.given)
           /\ load'.opacity = "0.5"
                  <=> ("shaded" \in DOMAIN load.given /\ load.given.shaded)
           /\ load'.state.center = StateDefaults.center
C29_StateAppliedOnResolve == [][C29_Step]_vars
C29_Witness ==
    /\ load.future.state = "resolved"
    /\ load.given = [selection |-> <<2, 1>>]
    /\ \A k \in DOMAIN stationsMap : stationsMap[k].selected
    /\ load.opacity = ""
    /\ load.shadeCall = NoShadeCall

\* ------------------------------------------------------------ claim C27
\* C27: no SchemeView is produced from a scheme without width or height:
\* the base scale and the offsets of a view that exists are numbers.
C27_NoViewWithoutSize ==
    /\ ~IsNaN(view.v.zeroZoomScale)
    /\ ~IsNaN(view.v.offset[1])
    /\ ~IsNaN(view.v.offset[2])

\* ------------------------------------------------------------ claim C30
InHighlightLayers(ls, k) ==
    /\ ParentOf(ls, LabelNode(stationsMap[k].code)) = HighlightLabels
    /\ \A n \in StationGlyphs(k) : ParentOf(ls, n) = HighlightStations

\* C30: a station is Selected exactly when its label glyph and every glyph
\* of its label's stationIds are in the highlight layers, and Unselected
\* exactly when they are all in the normal layers, also when two labels list
\* the same glyph.
C30_SelectedIffHighlighted ==
    \A k \in Known :
        /\ Selected(k) <=> InHighlightLayers(layers, k)
        /\ ~Selected(k) <=> InNormalLayers(layers, k)

\* ------------------------------------------------------------ claim C25
\* Station k has its label glyph, the rect of its label and every station
\* glyph its label lists.
Intact(w, k) ==
    /\ GetElementById(w, LabelNode(w.st[k].code)) # Null
    /\ w.st[k].code \in DOMAIN w.rect
    /\ \A i \in DOMAIN GetStationNodes(w, k) : GetStationNodes(w, k)[i] # Null

\* C25: after select(codes) or deselect(codes) with the codes of stations,
\* one of which lacks a node, every listed station that lacks none has made
\* its transition, wherever it stands in the list, and every station that
\* lacks none can still be selected.
C25_FailureIsolated ==
    /\ (call.op \in {"select", "deselect"} /\ \A i \in DOMAIN call.arg : call.arg[i] \in Known)
          => \A i \in DOMAIN call.arg :
                Intact(World, call.arg[i]) => (Selected(call.arg[i]) <=> call.op = "select")
    /\ \A k \in Known :
          (Intact(World, k) /\ ~Selected(k)) =>
              LET r == StationSelect(World, k)
              IN  ~r.threw /\ r.w.st[k].selected

\* ------------------------------------------------------------ claim C31
\* C31: a select() or deselect() call of a station that raises leaves the
\* program as it was before the call: the selected flags, the layers of the
\* glyphs, the styles of the label rects and the events fired.
C31_Step ==
    (call'.threw /\ call'.op \in {"Station.select", "Station.deselect"})
        => program' = program
C31_FailedCallChangesNothing == [][C31_Step]_vars

\* ------------------------------------------------------------ claim C32
\* C32: the step that attaches the layer makes exactly one updatePosition
\* call, with the origin and zoom the pane has then, before the handlers
\* are added and before the root node is appended; and no step leaves a
\* detached layer with an updatePosition call made.
C32_Step ==
    /\ (~view.layer.attached /\ view'.layer.attached)
          => /\ view'.updates = view.updates + 1
             /\ view'.last = [center |-> view.pane.origin, zoom |-> view.pane.zoom]
             /\ view'.steps = <<"updatePosition", "events.add", "appendChild">>
    /\ ~view'.layer.attached => (view'.updates = 0 /\ view'.steps = <<>>)
C32_PositionedOnceOnAttach == [][C32_Step]_vars
\* The pane fired its events before the layer was attached, away from the
\* place it started at.
C32_Witness ==
    /\ view.layer.attached
    /\ view.layer.appended
    /\ view.fired = MaxNotifications
    /\ view.notified = 0
    /\ view.updates = 1
    /\ view.last = [center |-> <<-64, 32>>, zoom |-> MaxZoom]

\* ------------------------------------------------------------ claim C33
\* The calls that reach a station's select or deselect.
Writers == {"Station.select", "Station.deselect", "click", "select", "deselect"}

\* C33: a step that changes the transform of the root node is one
\* updatePosition call and changes nothing of the stations, the shading or
\* the annotations; a step that changes a station's selected flag is a
\* select, deselect or click that names the station and changes nothing of
\* the view, the shading or the annotations; and a select(codes) or
\* deselect(codes) leaves the stations that codes does not name as they were.
C33_Step ==
    /\ view'.v.style # view.v.style
          => /\ view'.updates = view.updates + 1
             /\ UNCHANGED <<program, load, annot>>
    /\ \A k \in Known :
          stationsMap'[k].selected # stationsMap[k].selected
              => /\ call'.op \in Writers
                 /\ \E i \in DOMAIN call'.arg : call'.arg[i] = k
                 /\ UNCHANGED <<view, load, annot>>
    /\ (program' # program /\ call'.op \in {"select", "deselect"})
          => \A k \in Known :
                (\A i \in DOMAIN call'.arg : call'.arg[i] # k)
                    => /\ stationsMap'[k] = stationsMap[k]
                       /\ stationEvents'[k] = stationEvents[k]
                       /\ rect'[stationsMap[k].code] = rect[stationsMap[k].code]
C33_ExclusiveWriters == [][C33_Step]_vars
\* Station 1 stayed selected through deselect([2]), a move of the pane and
\* a shade call.
C33_Witness ==
    /\ Selected(1) /\ ~Selected(2)
    /\ stationEvents[2] = <<>>
    /\ call.op = "deselect" /\ call.arg = <<2>>
    /\ view.updates = 2
    /\ load.opacity = "0.5"

\* ------------------------------------------------------------ claim C34
\* C34: when the promise of create is rejected, the facade holds no host
\* map: none was created (nothing in the code destroys one it created).
C34_NothingLeftBehind ==
    load.future.state = "rejected" => "_map" \notin load.fields

\* ------------------------------------------------------------ claim C35
\* The index of the first code of the array that names no station (0 when
\* every code names one).
FirstUnknown(codes) ==
    IF \A i \in DOMAIN codes : codes[i] \in Known THEN 0
    ELSE CHOOSE i \in DOMAIN codes :
             codes[i] \notin Known /\ \A h \in 1..(i - 1) : codes[h] \in Known

\* C35: a select(codes) or deselect(codes) whose code at index i is the
\* first unknown one raises; the stations named before i have the flag of
\* the call, and those of them that changed it fired one event each, in the
\* order of the codes; every other station, one named after i included, is
\* as it was and fired nothing.
C35_Step ==
    (call'.op \in {"select", "deselect"} /\ FirstUnknown(call'.arg) > 0) =>
        LET codes == call'.arg
            i == FirstUnknown(codes)
            before == {codes[h] : h \in 1..(i - 1)}
            moved == {k \in before : Selected(k) # (call'.op = "select")}
        IN  /\ call'.threw
            /\ \A k \in before : stationsMap'[k].selected = (call'.op = "select")
            /\ \A k \in Known \ moved :
                   /\ stationsMap'[k] = stationsMap[k]
                   /\ stationEvents'[k] = stationEvents[k]
            /\ Len(NewEvents) = Cardinality(moved)
            /\ \A k \in moved :
                   /\ stationEvents'[k] = Append(stationEvents[k], SelectionChange(call'.op, k))
                   /\ \E n \in DOMAIN NewEvents : NewEvents[n] = SelectionChange(call'.op, k)
            /\ \A m, n \in DOMAIN NewEvents :
                   m < n => FirstAt(codes, NewEvents[m].target)
                               < FirstAt(codes, NewEvents[n].target)
C35_InOrderNotAtomic == [][C35_Step]_vars
\* deselect([1, unknown]) raised after station 1, selected before the call,
\* was deselected and fired its event.
C35_Witness ==
    /\ call.op = "deselect"
    /\ call.arg = <<1, NumStations + 1>>
    /\ call.threw
    /\ ~Selected(1)
    /\ stationEvents[1] = <<SelectionChange("select", 1), SelectionChange("deselect", 1)>>
    /\ collectionEvents[Len(collectionEvents)] = SelectionChange("deselect", 1)

\* ------------------------------------------------------------ claim C36
\* The middle of a box of the diagram, in the coordinates of the projection:
\* the diagram is scaled by zeroZoomScale and shifted by the offset into the
\* square of SQUARE_SIZE pixels, which the projection lays over its bounds.
GeoMidpoint(v, bbox) ==
    LET x == Times(Plus(Plus(bbox.x, Over(bbox.width, Num(2))), v.offset[1]), v.zeroZoomScale)
        y == Times(Plus(Plus(bbox.y, Over(bbox.height, Num(2))), v.offset[2]), v.zeroZoomScale)
    IN  <<Minus(Over(x, Num(SQUARE_SIZE \div 2)), Num(1)),
          Minus(Num(1), Over(y, Num(SQUARE_SIZE \div 2)))>>

\* C36: whatever zoom and pixel origin the pane has, getPosition returns
\* the middle of the glyph's box in the coordinates of the projection; and
\* the position computed for that box at any zoom is the same point.
C36_PositionIgnoresPanAndZoom ==
    (call.op = "getPosition" /\ ~call.threw) =>
        LET bbox == GetBBox(GetPosition(World, call.arg[1]).of)
        IN  /\ call.result = GeoMidpoint(view.v, bbox)
            /\ \A zoom \in Zooms :
                   Midpoint(GetGeoBBox(view.v, zoom, bbox)) = call.result
\* getPosition was called after the pane zoomed in and moved.
C36_Witness ==
    /\ call.op = "getPosition"
    /\ call.arg = <<2>>
    /\ ~call.threw
    /\ view.pane.zoom = MaxZoom
    /\ view.pane.origin = <<-64, 32>>
    /\ view.updates = 2

====
